---------------------------- MODULE Spec2Model ----------------------------
(***************************************************************************)
(* A model of the two prebuild pipelines of llmspecs:                      *)
(*   website/scripts/build-skills.mjs       (src/unnamed/part_001)         *)
(*   website/scripts/build-definitions.mjs  (src/unnamed/part_002)         *)
(*                                                                         *)
(* JavaScript strings are modelled as sequences of one-character strings,  *)
(* so that basename, suffix, prefix and substring tests, case folding,     *)
(* slicing and concatenation are computed the way the code computes them.  *)
(***************************************************************************)
EXTENDS Integers, Sequences, FiniteSets, TLC

VARIABLES
    \* --- the Exclusion Filter applied along a path (SpecFilter) ---
    fPath,          \* the segments of the relative path classified last
    fIsDir,         \* the isDirectory flag passed with it
    fVerdict,       \* shouldExcludePath(fPath joined, fIsDir)
    fDirVerdicts,   \* shouldExcludePath of each proper prefix, as a directory
    \* --- truncate applied to a description (SpecTruncate) ---
    tStr,           \* the full description
    tOut,           \* truncate(tStr, PUBLIC_DESC_MAX_CHARS)
    tDone,          \* whether the description has been projected
    \* --- counting and archiving one skill directory (SpecPack) ---
    pTree,          \* the directory tree of the skill: a set of entries
    pFolder,        \* skillFolderName
    pPrefixed,      \* whether entry.name carries the archive prefix
    pFileCount,     \* the result of countIncludedFiles
    pArchive,       \* the members createSkillZip put in the archive
    pDone,          \* whether the skill has been counted and archived
    \* --- one pipeline process (Spec) ---
    pipeline,       \* which script runs: "skills" or "definitions"
    runNo,          \* "first" or "second" run against the same corpus
    pc,             \* where main is
    exitCode,       \* process.exitCode
    warnLog,        \* the console.warn calls so far
    rootExists,     \* whether the corpus root directory exists
    unreadableDirs, \* the directories fsp.readdir fails on
    skillsCorpus,   \* the skill directories on disk
    groupNames,     \* const groupNames = await listGroups()
    gIdx,           \* position of the for (groupName of groupNames) loop
    skillDirs,      \* const skillDirs = await listSkillDirs(groupDirAbs)
    sIdx,           \* position of the for (s of skillDirs) loop
    seenSkillFolderNames,
    packagedCount,
    errorCount,
    totalZipBytes,
    groupOutPublic,
    groupOutInternal,
    manifestPublic,
    manifestInternal,
    zipWrites,      \* the write streams createSkillZip opened, in order
    outFiles,       \* the files writeJsonPretty wrote, in order
    boundaryChecks, \* the assertInsideDir calls that returned, in order
    prevPublic,     \* the public manifest the previous run wrote
    prevInternal,   \* the internal catalog the previous run wrote
    defsCorpus,     \* the provider directories on disk
    providerIds,    \* const providerIds = await listProviderDirs()
    provIdx,        \* position of the for (providerId of providerIds) loop
    modelTotal

filterVars == <<fPath, fIsDir, fVerdict, fDirVerdicts>>
truncVars  == <<tStr, tOut, tDone>>
packVars   == <<pTree, pFolder, pPrefixed, pFileCount, pArchive, pDone>>
envVars    == <<pipeline, rootExists, unreadableDirs, skillsCorpus>>
runVars    == <<runNo, pc, exitCode, warnLog, errorCount, manifestPublic,
                manifestInternal, outFiles, boundaryChecks, prevPublic,
                prevInternal>>
skillVars  == <<groupNames, gIdx, skillDirs, sIdx, seenSkillFolderNames,
                packagedCount, totalZipBytes, groupOutPublic, groupOutInternal,
                zipWrites>>
defVars    == <<defsCorpus, providerIds, provIdx, modelTotal>>
pureVars   == <<filterVars, truncVars, packVars>>

(***************************************************************************)
(* String primitives of String.prototype and path.posix                    *)
(***************************************************************************)

UpperToLower ==
    ("A" :> "a") @@ ("B" :> "b") @@ ("C" :> "c") @@ ("D" :> "d") @@
    ("E" :> "e") @@ ("F" :> "f") @@ ("G" :> "g") @@ ("H" :> "h") @@
    ("I" :> "i") @@ ("J" :> "j") @@ ("K" :> "k") @@ ("L" :> "l") @@
    ("M" :> "m") @@ ("N" :> "n") @@ ("O" :> "o") @@ ("P" :> "p") @@
    ("Q" :> "q") @@ ("R" :> "r") @@ ("S" :> "s") @@ ("T" :> "t") @@
    ("U" :> "u") @@ ("V" :> "v") @@ ("W" :> "w") @@ ("X" :> "x") @@
    ("Y" :> "y") @@ ("Z" :> "z")

LowerChar(c) == IF c \in DOMAIN UpperToLower THEN UpperToLower[c] ELSE c

\* String.prototype.toLowerCase
toLowerCase(s) == [i \in 1..Len(s) |-> LowerChar(s[i])]

\* String.prototype.endsWith
endsWith(s, suf) ==
    /\ Len(s) >= Len(suf)
    /\ SubSeq(s, Len(s) - Len(suf) + 1, Len(s)) = suf

\* String.prototype.startsWith
startsWith(s, pre) ==
    /\ Len(s) >= Len(pre)
    /\ SubSeq(s, 1, Len(pre)) = pre

\* String.prototype.includes
includes(s, sub) ==
    \E i \in 1..(Len(s) - Len(sub) + 1) : SubSeq(s, i, i + Len(sub) - 1) = sub

\* String.prototype.slice(0, n)
slice0(s, n) == SubSeq(s, 1, IF n < Len(s) THEN n ELSE Len(s))

\* String.prototype.split(sep) for a one-character separator: the pieces
\* between separators, empty pieces included.
RECURSIVE splitFrom(_, _, _, _)
splitFrom(s, sep, i, cur) ==
    IF i > Len(s) THEN <<cur>>
    ELSE IF s[i] = sep THEN <<cur>> \o splitFrom(s, sep, i + 1, <<>>)
    ELSE splitFrom(s, sep, i + 1, Append(cur, s[i]))

split(s, sep) == splitFrom(s, sep, 1, <<>>)

\* Array.prototype.join(sep)
RECURSIVE join(_, _)
join(parts, sep) ==
    IF Len(parts) = 0 THEN <<>>
    ELSE IF Len(parts) = 1 THEN parts[1]
    ELSE parts[1] \o <<sep>> \o join(Tail(parts), sep)

\* Array.prototype.filter(Boolean) on an array of strings: drops the empty ones.
RECURSIVE filterNonEmpty(_)
filterNonEmpty(parts) ==
    IF Len(parts) = 0 THEN <<>>
    ELSE IF Len(parts[1]) = 0 THEN filterNonEmpty(Tail(parts))
    ELSE <<parts[1]>> \o filterNonEmpty(Tail(parts))

\* path.posix.basename: trailing slashes are dropped, then the text after
\* the last slash is returned.
RECURSIVE stripTrailingSlashes(_)
stripTrailingSlashes(s) ==
    IF Len(s) > 0 /\ s[Len(s)] = "/"
    THEN stripTrailingSlashes(SubSeq(s, 1, Len(s) - 1))
    ELSE s

posixBasename(rel) ==
    LET parts == split(stripTrailingSlashes(rel), "/")
    IN  parts[Len(parts)]

\* path.sep of the POSIX build of node:path
pathSep == "/"

(***************************************************************************)
(* File and directory names used by the model                              *)
(***************************************************************************)

n_git         == <<".", "g", "i", "t">>
n_hg          == <<".", "h", "g">>
n_svn         == <<".", "s", "v", "n">>
n_env         == <<".", "e", "n", "v">>
n_env_local   == <<".", "e", "n", "v", ".", "l">>
n_npmrc       == <<".", "n", "p", "m", "r", "c">>
n_yarnrc      == <<".", "y", "a", "r", "n", "r", "c">>
n_yarnrc_yml  == <<".", "y", "a", "r", "n", "r", "c", ".", "y", "m", "l">>
n_pypirc      == <<".", "p", "y", "p", "i", "r", "c">>
n_id_rsa      == <<"i", "d", "_", "r", "s", "a">>
n_id_ed25519  == <<"i", "d", "_", "e", "d", "2", "5", "5", "1", "9">>
n_a_PEM       == <<"a", ".", "P", "E", "M">>
n_DS_Store    == <<".", "D", "S", "_", "S", "t", "o", "r", "e">>
n_a_swp       == <<"a", ".", "s", "w", "p">>
n_node_modules == <<"n", "o", "d", "e", "_", "m", "o", "d", "u", "l", "e", "s">>
n_dist        == <<"d", "i", "s", "t">>
n_pycache     == <<"_", "_", "p", "y", "c", "a", "c", "h", "e", "_", "_">>
n_ssh         == <<".", "s", "s", "h">>
n_dotvenv     == <<".", "v", "e", "n", "v">>
n_venv        == <<"v", "e", "n", "v">>
n_envdir      == <<"e", "n", "v">>
n_idea        == <<".", "i", "d", "e", "a">>
n_vscode      == <<".", "v", "s", "c", "o", "d", "e">>
n_terraform   == <<".", "t", "e", "r", "r", "a", "f", "o", "r", "m">>
n_hidden      == <<".", "h", "i", "d">>
n_gitkeep     == <<".", "g", "i", "t", "k", "e", "e", "p">>
n_src         == <<"s", "r", "c">>
n_a_txt       == <<"a", ".", "t", "x", "t">>
n_SKILL_md    == <<"S", "K", "I", "L", "L", ".", "m", "d">>

(***************************************************************************)
(* Exclusion Filter: shouldExcludePath                                     *)
(***************************************************************************)

excludedDirNames ==
    { n_pycache, n_ssh, n_node_modules, n_dotvenv, n_venv, n_envdir, n_dist,
      n_idea, n_vscode, n_terraform }

\* segments.some((seg) => excludedDirNames.has(seg))
someSegmentExcluded(segments) ==
    \E i \in 1..Len(segments) : segments[i] \in excludedDirNames

\* The dot rule applied to every entry, directory or not
dotDirectoryRule_anyEntry(base, isDirectory) == startsWith(base, <<".">>)

\* if (isDirectory && base.startsWith('.')) return true;
dotDirectoryRule(base, isDirectory) == isDirectory /\ startsWith(base, <<".">>)

\* rel.includes('/.git/') || rel.includes('/.svn/') || rel.includes('/.hg/')
insideVcsDir(rel) ==
    \/ includes(rel, <<"/">> \o n_git \o <<"/">>)
    \/ includes(rel, <<"/">> \o n_svn \o <<"/">>)
    \/ includes(rel, <<"/">> \o n_hg \o <<"/">>)

shouldExcludePath(relPathLike, isDirectory) ==
    LET rel == join(split(relPathLike, pathSep), "/")
        base == posixBasename(rel)
        baseLower == toLowerCase(base)
        segments == filterNonEmpty(split(rel, "/"))
    IN  \/ base = n_DS_Store
        \/ endsWith(baseLower, <<".", "p", "y", "c">>)
        \/ base = n_git \/ base = n_svn \/ base = n_hg
        \/ insideVcsDir(rel)
        \/ base = n_env \/ startsWith(base, n_env \o <<".">>)
        \/ base = n_npmrc
        \/ base = n_yarnrc \/ base = n_yarnrc_yml
        \/ base = n_pypirc
        \/ baseLower = n_id_rsa \/ baseLower = n_id_ed25519
        \/ endsWith(baseLower, <<".", "p", "e", "m">>)
        \/ endsWith(baseLower, <<".", "k", "e", "y">>)
        \/ endsWith(baseLower, <<".", "p", "1", "2">>)
        \/ endsWith(baseLower, <<".", "p", "f", "x">>)
        \/ endsWith(baseLower, <<".", "s", "w", "p">>)
        \/ endsWith(baseLower, <<".", "s", "w", "o">>)
        \/ someSegmentExcluded(segments)
        \/ dotDirectoryRule(base, isDirectory)

(***************************************************************************)
(* SpecFilter: the filter applied to every entry met along a path, the way *)
(* the walkers (countIncludedFiles, listModelTomlFiles) and the archiver   *)
(* callback of createSkillZip call it.                                     *)
(***************************************************************************)

MaxDepth == 3

FilterNames ==
    { n_git, n_hg, n_env, n_env_local, n_id_rsa, n_a_PEM, n_DS_Store, n_a_swp,
      n_node_modules, n_dist, n_hidden, n_gitkeep, n_src, n_a_txt }

\* const childRel = relFromRoot ? `${relFromRoot}/${ent.name}` : ent.name;
childRelOf(relFromRoot, name) ==
    IF Len(relFromRoot) > 0 THEN relFromRoot \o <<"/">> \o name ELSE name

FilterIdle ==
    /\ fPath = <<>>
    /\ fIsDir = FALSE
    /\ fVerdict = FALSE
    /\ fDirVerdicts = <<>>

\* One more entry below the current path is classified; the path so far is
\* the directory that holds it.
Classify(name, isDirectory) ==
    /\ Len(fPath) < MaxDepth
    /\ LET relFromRoot == join(fPath, "/")
           childRel == childRelOf(relFromRoot, name)
       IN  /\ fPath' = Append(fPath, name)
           /\ fIsDir' = isDirectory
           /\ fVerdict' = shouldExcludePath(childRel, isDirectory)
           /\ fDirVerdicts' =
                 IF Len(fPath) = 0 THEN <<>>
                 ELSE Append(fDirVerdicts, shouldExcludePath(relFromRoot, TRUE))

(***************************************************************************)
(* truncate                                                                *)
(***************************************************************************)

PUBLIC_DESC_MAX_CHARS == 500

\* The character U+2026 (horizontal ellipsis)
Ellipsis == "U+2026"

\* truncate cutting at maxChars instead of maxChars - 1
truncate_cutAtBudget(str, maxChars) ==
    IF maxChars <= 0 THEN <<>>
    ELSE IF Len(str) <= maxChars THEN str
    ELSE IF maxChars = 1 THEN <<Ellipsis>>
    ELSE slice0(str, maxChars) \o <<Ellipsis>>

\* Every caller passes a string (fullDescription, and a truthy
\* modelInternal.description), so the typeof guard never fires; maxChars
\* is an integer, so Number.isFinite(maxChars) holds.
truncate(str, maxChars) ==
    IF maxChars <= 0 THEN <<>>
    ELSE IF Len(str) <= maxChars THEN str
    ELSE IF maxChars = 1 THEN <<Ellipsis>>
    ELSE slice0(str, maxChars - 1) \o <<Ellipsis>>

MaxDescLen == 502

\* Where a description of the model may hold an ellipsis of its own
\* (0: nowhere).
EllipsisPositions == {0, 1, PUBLIC_DESC_MAX_CHARS - 1, PUBLIC_DESC_MAX_CHARS}

descriptionOf(n, k) == [i \in 1..n |-> IF i = k THEN Ellipsis ELSE "x"]

Descriptions ==
    { descriptionOf(n, k) : n \in 0..MaxDescLen, k \in EllipsisPositions }

TruncIdle ==
    /\ tStr = <<>>
    /\ tOut = <<>>
    /\ tDone = FALSE

\* description: truncate(fullDescription, PUBLIC_DESC_MAX_CHARS) of skillPublic,
\* and the description of toPublicModel.
PublicDescription ==
    /\ ~tDone
    /\ tOut' = truncate(tStr, PUBLIC_DESC_MAX_CHARS)
    /\ tDone' = TRUE
    /\ UNCHANGED tStr

(***************************************************************************)
(* Packager: countIncludedFiles and createSkillZip over one skill tree     *)
(***************************************************************************)

n_lnk == <<"l", "n", "k">>
n_sk  == <<"s", "k">>

\* A directory tree is a set of entries; an entry is the path from the
\* skill root (a sequence of names) and what the Dirent says it is:
\* "dir" (isDirectory), "file" (isFile) or "other" (a symlink, a socket).
Entry(path, kind) == [path |-> path, kind |-> kind]

CandidateEntries ==
    { Entry(<<n_SKILL_md>>, "file"),
      Entry(<<n_gitkeep>>, "file"),
      Entry(<<n_env>>, "file"),
      Entry(<<n_lnk>>, "other"),
      Entry(<<n_src>>, "dir"),
      Entry(<<n_src, n_a_txt>>, "file"),
      Entry(<<n_src, n_hidden>>, "dir"),
      Entry(<<n_src, n_hidden, n_a_txt>>, "file"),
      Entry(<<n_hidden>>, "dir"),
      Entry(<<n_hidden, n_a_txt>>, "file"),
      Entry(<<n_git>>, "dir"),
      Entry(<<n_git, n_a_txt>>, "file"),
      Entry(<<n_node_modules>>, "dir"),
      Entry(<<n_node_modules, n_a_txt>>, "file") }

parentPath(path) == SubSeq(path, 1, Len(path) - 1)

\* A tree holds the directory of each of its entries.
IsTree(t) ==
    \A e \in t : Len(e.path) > 1 => Entry(parentPath(e.path), "dir") \in t

Trees == { t \in SUBSET CandidateEntries : IsTree(t) }

\* fsp.readdir(dirAbs, { withFileTypes: true }): the entries of one directory
readdir(tree, dirPath) ==
    { e \in tree : Len(e.path) = Len(dirPath) + 1 /\ parentPath(e.path) = dirPath }

\* walk(dirAbs, relFromRoot) of countIncludedFiles, over the entries of the
\* directory still to be visited; the result is what it adds to count.
RECURSIVE walk(_, _, _)
walk(tree, dirPath, entries) ==
    IF entries = {} THEN 0
    ELSE LET ent == CHOOSE e \in entries : TRUE
             name == ent.path[Len(ent.path)]
             childRel == childRelOf(join(dirPath, "/"), name)
             rest == walk(tree, dirPath, entries \ {ent})
         IN  IF shouldExcludePath(childRel, ent.kind = "dir") THEN rest
             ELSE IF ent.kind = "dir"
                  THEN walk(tree, ent.path, readdir(tree, ent.path)) + rest
             ELSE IF ent.kind = "file" THEN 1 + rest
             ELSE rest

countIncludedFiles(tree) == walk(tree, <<>>, readdir(tree, <<>>))

\* entry.name as the callback of archive.directory sees it: the path of the
\* entry relative to skillDirAbs, or, as the comment in the callback reads
\* it, the path inside the archive (below the skillFolderName prefix).
entryName(ent, skillFolderName, prefixed) ==
    IF prefixed THEN join(<<skillFolderName>> \o ent.path, "/")
    ELSE join(ent.path, "/")

\* archive.directory(skillDirAbs, skillFolderName, callback): every entry
\* below skillDirAbs is handed to the callback on its own, and is appended
\* unless the callback returns false.
archiveMembers(tree, skillFolderName, prefixed) ==
    { ent \in tree :
        ~shouldExcludePath(entryName(ent, skillFolderName, prefixed),
                           ent.kind = "dir") }

regularFiles(members) == { ent \in members : ent.kind = "file" }

PackIdle ==
    /\ pTree = {}
    /\ pFolder = n_sk
    /\ pPrefixed = FALSE
    /\ pFileCount = 0
    /\ pArchive = {}
    /\ pDone = FALSE

\* fileCount = await countIncludedFiles(skillDirAbs);
\* await createSkillZip({ skillDirAbs, skillFolderName, zipOutAbs });
PackageSkill ==
    /\ ~pDone
    /\ pFileCount' = countIncludedFiles(pTree)
    /\ pArchive' = archiveMembers(pTree, pFolder, pPrefixed)
    /\ pDone' = TRUE
    /\ UNCHANGED <<pTree, pFolder, pPrefixed>>

(***************************************************************************)
(* Ordering: localeCompare(.., undefined, { sensitivity: 'base' }) and     *)
(* Array.prototype.sort                                                    *)
(***************************************************************************)

\* The characters of the model in the order of the root collation
\* (punctuation, then digits, then letters); letters that differ only in
\* case have the same primary weight.
CollationOrder ==
    << " ", "_", "-", ".", "/",
       "0", "1", "2", "3", "4", "5", "6", "7", "8", "9",
       "a", "b", "c", "d", "e", "f", "g", "h", "i", "j", "k", "l", "m",
       "n", "o", "p", "q", "r", "s", "t", "u", "v", "w", "x", "y", "z" >>

primaryWeight(c) ==
    CHOOSE i \in 1..Len(CollationOrder) : CollationOrder[i] = LowerChar(c)

\* a.localeCompare(b, undefined, { sensitivity: 'base' }): negative, zero or
\* positive; strings that differ only in case compare equal.
RECURSIVE localeCompareBase(_, _)
localeCompareBase(a, b) ==
    IF Len(a) = 0 /\ Len(b) = 0 THEN 0
    ELSE IF Len(a) = 0 THEN -1
    ELSE IF Len(b) = 0 THEN 1
    ELSE IF primaryWeight(a[1]) < primaryWeight(b[1]) THEN -1
    ELSE IF primaryWeight(a[1]) > primaryWeight(b[1]) THEN 1
    ELSE localeCompareBase(Tail(a), Tail(b))

\* Array.prototype.sort is stable: elements that compare equal keep the
\* order they had in the array. sortedOrder(keys, n) is the order in which
\* the first n elements come out, as indexes into keys.
RECURSIVE sortedOrder(_, _)
sortedOrder(keys, n) ==
    IF n = 0 THEN <<>>
    ELSE LET before == sortedOrder(keys, n - 1)
             notAfter == { i \in 1..Len(before) :
                             localeCompareBase(keys[before[i]], keys[n]) <= 0 }
             k == Cardinality(notAfter)
         IN  SubSeq(before, 1, k) \o <<n>> \o SubSeq(before, k + 1, Len(before))

\* The array left in the order it was built in
sortByKeys_unsorted(arr, keys) == arr

\* arr.sort((a, b) => key(a).localeCompare(key(b), undefined, { sensitivity: 'base' }))
sortByKeys(arr, keys) ==
    LET order == sortedOrder(keys, Len(arr))
    IN  [i \in 1..Len(arr) |-> arr[order[i]]]

sortAlphaCaseInsensitive(values) == sortByKeys(values, values)

\* The orders in which readdir may return the entries of a directory.
enumerations(S) ==
    { q \in [1..Cardinality(S) -> S] : \A i, j \in 1..Cardinality(S) : q[i] = q[j] => i = j }

(***************************************************************************)
(* slugifyGroupName                                                        *)
(***************************************************************************)

LowerLetters == { UpperToLower[c] : c \in DOMAIN UpperToLower }
UpperLetters == DOMAIN UpperToLower
Digits == {"0", "1", "2", "3", "4", "5", "6", "7", "8", "9"}

\* groupName.replace(/([a-z0-9])([A-Z])/g, '$1-$2')
RECURSIVE withDashesFrom(_, _)
withDashesFrom(s, i) ==
    IF i > Len(s) THEN <<>>
    ELSE IF /\ i < Len(s)
            /\ s[i] \in LowerLetters \cup Digits
            /\ s[i + 1] \in UpperLetters
         THEN <<s[i], "-">> \o withDashesFrom(s, i + 1)
    ELSE <<s[i]>> \o withDashesFrom(s, i + 1)

\* String.prototype.trim
RECURSIVE trimStart(_)
trimStart(s) == IF Len(s) > 0 /\ s[1] = " " THEN trimStart(Tail(s)) ELSE s

RECURSIVE trimEnd(_)
trimEnd(s) ==
    IF Len(s) > 0 /\ s[Len(s)] = " " THEN trimEnd(SubSeq(s, 1, Len(s) - 1)) ELSE s

trim(s) == trimEnd(trimStart(s))

\* .replace(/[^a-z0-9]+/g, '-')
RECURSIVE collapseNonAlnum(_, _)
collapseNonAlnum(s, inRun) ==
    IF Len(s) = 0 THEN <<>>
    ELSE IF s[1] \in LowerLetters \cup Digits
         THEN <<s[1]>> \o collapseNonAlnum(Tail(s), FALSE)
    ELSE IF inRun THEN collapseNonAlnum(Tail(s), TRUE)
    ELSE <<"-">> \o collapseNonAlnum(Tail(s), TRUE)

\* .replace(/^-+|-+$/g, '')
RECURSIVE stripDashStart(_)
stripDashStart(s) == IF Len(s) > 0 /\ s[1] = "-" THEN stripDashStart(Tail(s)) ELSE s

RECURSIVE stripDashEnd(_)
stripDashEnd(s) ==
    IF Len(s) > 0 /\ s[Len(s)] = "-"
    THEN stripDashEnd(SubSeq(s, 1, Len(s) - 1))
    ELSE s

slugifyGroupName(groupName) ==
    LET withDashes == withDashesFrom(groupName, 1)
    IN  stripDashEnd(stripDashStart(
            collapseNonAlnum(toLowerCase(trim(withDashes)), FALSE)))

(***************************************************************************)
(* Paths: path.resolve, path.relative, path.isAbsolute (POSIX)             *)
(***************************************************************************)

\* An absolute path is the sequence of its segments below the repository
\* root.
s_website   == <<"w", "e", "b", "s", "i", "t", "e">>
s_public    == <<"p", "u", "b", "l", "i", "c">>
s_skills    == <<"s", "k", "i", "l", "l", "s">>
s_downloads == <<"d", "o", "w", "n", "l", "o", "a", "d", "s">>
s_dotzip    == <<".", "z", "i", "p">>

websiteDir    == <<s_website>>
skillsRootDir == <<s_skills>>
publicDir     == <<s_website, s_public>>
downloadsDir  == <<s_website, s_public, s_skills, s_downloads>>

\* path.resolve(baseAbs, rel): the segments of rel are applied to baseAbs
\* from left to right; '' and '.' are dropped, '..' removes the last
\* segment (the root has none to remove); an absolute rel starts from the
\* root.
RECURSIVE applySegments(_, _)
applySegments(abs, segs) ==
    IF Len(segs) = 0 THEN abs
    ELSE IF segs[1] = <<>> \/ segs[1] = <<".">> THEN applySegments(abs, Tail(segs))
    ELSE IF segs[1] = <<".", ".">>
         THEN applySegments(IF Len(abs) = 0 THEN abs ELSE SubSeq(abs, 1, Len(abs) - 1),
                            Tail(segs))
    ELSE applySegments(Append(abs, segs[1]), Tail(segs))

pathIsAbsolute(p) == startsWith(p, <<"/">>)

pathResolve(baseAbs, rel) ==
    applySegments(IF pathIsAbsolute(rel) THEN <<>> ELSE baseAbs, split(rel, "/"))

RECURSIVE commonPrefixLen(_, _)
commonPrefixLen(a, b) ==
    IF Len(a) = 0 \/ Len(b) = 0 \/ a[1] # b[1] THEN 0
    ELSE 1 + commonPrefixLen(Tail(a), Tail(b))

\* path.relative(from, to), as a string: one '..' for each segment of from
\* below the common prefix, then the rest of to.
pathRelative(from, to) ==
    LET k == commonPrefixLen(from, to)
        ups == [i \in 1..(Len(from) - k) |-> <<".", ".">>]
    IN  join(ups \o SubSeq(to, k + 1, Len(to)), "/")

\* The boundary check without its tests for a leading '..'
outsideDir_absoluteOnly(baseDirAbs, targetAbs) ==
    pathIsAbsolute(pathRelative(baseDirAbs, targetAbs))

\* The output boundary check of main and of assertInsideDir: whether
\* targetAbs is outside baseDirAbs.
outsideDir(baseDirAbs, targetAbs) ==
    LET rel == pathRelative(baseDirAbs, targetAbs)
        relPosix == join(split(rel, pathSep), "/")
    IN  \/ pathIsAbsolute(rel)
        \/ relPosix = <<".", ".">>
        \/ startsWith(relPosix, <<".", ".", "/">>)

(***************************************************************************)
(* build-skills.mjs: the corpus                                            *)
(***************************************************************************)

VERSION == <<"1", ".", "0", ".", "0">>
BASE_URL == <<"h", "t", "t", "p", "s", ":", "/", "/", "w", "w", "w", ".",
              "l", "l", "m", "s", "p", "e", "c", ".", "d", "e", "v">>

g_Docs == <<"D", "o", "c", "s">>
g_docs == <<"d", "o", "c", "s">>

d_x    == <<"x">>
d_evil == <<".", ".", "/", ".", ".", "/", "e", "v", "i", "l">>
d_ab   == <<"a", "/", ".", ".", "/", "b">>

n_scripts    == <<"s", "c", "r", "i", "p", "t", "s">>
n_references == <<"r", "e", "f", "e", "r", "e", "n", "c", "e", "s">>
n_LICENSE     == <<"L", "I", "C", "E", "N", "S", "E">>
n_LICENSE_txt == n_LICENSE \o <<".", "t", "x", "t">>
n_LICENSE_md  == n_LICENSE \o <<".", "m", "d">>
n_README      == <<"R", "E", "A", "D", "M", "E">>

t_Zed == <<"Z", "e", "d">>
t_d   == <<"d">>

\* A value read from parsed metadata: a string, or something that is not
\* one (undefined, a number, a table).
JsString(v) == [t |-> "string", v |-> v]
JsUndefined == [t |-> "undefined", v |-> <<>>]

\* The trees a skill directory of the model may hold.
T_plain == { Entry(<<n_SKILL_md>>, "file") }
T_rich ==
    { Entry(<<n_SKILL_md>>, "file"),
      Entry(<<n_scripts>>, "dir"),
      Entry(<<n_scripts, n_a_txt>>, "file"),
      Entry(<<n_LICENSE>>, "file"),
      Entry(<<n_hidden>>, "dir"),
      Entry(<<n_hidden, n_a_txt>>, "file") }
T_notSkill == { Entry(<<n_a_txt>>, "file") }

\* What SKILL.md holds: whether reading and parsing it succeeds, and the
\* name and description of its frontmatter.
F_unparsable == [parses |-> FALSE, name |-> JsUndefined, description |-> JsUndefined]
F_named      == [parses |-> TRUE, name |-> JsString(t_Zed),
                 description |-> JsString(<<" ">> \o t_d)]
F_bare       == [parses |-> TRUE, name |-> JsUndefined, description |-> JsUndefined]

\* A skill directory as the run finds it: its tree, its SKILL.md, how
\* packaging it ends ("ok", "countFails": readdir throws inside
\* countIncludedFiles, "zipFails": the write stream or the archiver
\* reports an error) and the size fsp.stat reports for its archive.
UnitProfiles ==
    { [tree |-> T_rich,     front |-> F_named,      pack |-> "ok",         size |-> 900],
      [tree |-> T_plain,    front |-> F_bare,       pack |-> "zipFails",   size |-> 0],
      [tree |-> T_plain,    front |-> F_unparsable, pack |-> "countFails", size |-> 0],
      [tree |-> T_notSkill, front |-> F_unparsable, pack |-> "ok",         size |-> 0] }

GroupDirNames == {g_Docs, g_docs}
SkillDirNames == {d_x, d_evil, d_ab}

MaxUnits == 2

UnitDirs ==
    { [group |-> g, dirName |-> d, profile |-> pr] :
        g \in GroupDirNames, d \in SkillDirNames, pr \in UnitProfiles }

\* The corpora of the model: at most MaxUnits directories, no two at the
\* same place.
Corpora ==
    { c \in UNION { { { q[i] : i \in 1..k } : q \in [1..k -> UnitDirs] } : k \in 0..MaxUnits } :
        \A u, w \in c : (u.group = w.group /\ u.dirName = w.dirName) => u = w }

unitAt(corpus, groupName, dirName) ==
    CHOOSE u \in corpus : u.group = groupName /\ u.dirName = dirName

\* fsp.readdir(skillsRootDir): the group directories, and beside them an
\* editor settings directory and a file.
rootEntries(corpus) ==
    { [name |-> u.group, kind |-> "dir"] : u \in corpus }
        \cup { [name |-> n_vscode, kind |-> "dir"], [name |-> n_README, kind |-> "file"] }

\* path.resolve(skillsRootDir, groupName)
groupDirAbsOf(groupName) == pathResolve(skillsRootDir, groupName)

\* The group directories readdir may fail on, and the sets of unreadable
\* directories a corpus may come with.
UnreadableGroupNames == {g_docs}
UnreadableSkillDirs(corpus) ==
    { {} } \cup { {groupDirAbsOf(u.group)} :
                    u \in { w \in corpus : w.group \in UnreadableGroupNames } }

\* fsp.readdir(groupDirAbs): the directories of the group, and a file.
groupEntries(corpus, groupName) ==
    { [name |-> u.dirName, kind |-> "dir"] : u \in { w \in corpus : w.group = groupName } }
        \cup { [name |-> n_README, kind |-> "file"] }

\* entries.filter((e) => e.isDirectory()) over a sequence of entries
RECURSIVE filterDirectories(_)
filterDirectories(entries) ==
    IF Len(entries) = 0 THEN <<>>
    ELSE IF entries[1].kind = "dir"
         THEN <<entries[1]>> \o filterDirectories(Tail(entries))
    ELSE filterDirectories(Tail(entries))

namesOf(entries) == [i \in 1..Len(entries) |-> entries[i].name]

\* listGroups, given the order readdir returned the entries in
listGroups(entries) == sortAlphaCaseInsensitive(namesOf(filterDirectories(entries)))

\* pathExists(p): something, of any kind, is at path p of the tree
pathExists(tree, path) == \E e \in tree : e.path = path

\* isDirectory(p)
isDirectory(tree, path) == Entry(path, "dir") \in tree

RECURSIVE keepSkills(_, _, _)
keepSkills(corpus, groupName, candidates) ==
    IF Len(candidates) = 0 THEN <<>>
    ELSE LET c == candidates[1]
             rest == keepSkills(corpus, groupName, Tail(candidates))
         IN  IF pathExists(unitAt(corpus, groupName, c.dirName).profile.tree,
                           <<n_SKILL_md>>)
             THEN <<c>> \o rest
             ELSE rest

\* listSkillDirs(groupDirAbs), given the order readdir returned the entries in
listSkillDirs(corpus, groupName, entries) ==
    LET dirs == filterDirectories(entries)
        candidates == [i \in 1..Len(dirs) |->
                         [dirName |-> dirs[i].name,
                          absPath |-> pathResolve(pathResolve(skillsRootDir, groupName),
                                                  dirs[i].name)]]
        skills == keepSkills(corpus, groupName, candidates)
    IN  sortByKeys(skills, [i \in 1..Len(skills) |-> skills[i].dirName])

\* parseSkillFrontmatter(skillMdAbs, fallbackName): the record it returns
parseSkillFrontmatter(front, fallbackName) ==
    IF ~front.parses THEN [name |-> fallbackName, description |-> <<>>]
    ELSE [name |-> IF front.name.t = "string" /\ Len(trim(front.name.v)) > 0
                   THEN trim(front.name.v)
                   ELSE fallbackName,
          description |-> IF front.description.t = "string"
                          THEN trim(front.description.v)
                          ELSE <<>>]

\* The console.warn calls of parseSkillFrontmatter
Warning(kind, about) == [kind |-> kind, about |-> about]

frontmatterWarnings(front, fallbackName) ==
    IF ~front.parses
    THEN << Warning("frontmatter-parse-failed", fallbackName),
            Warning("detail", fallbackName) >>
    ELSE IF Len(parseSkillFrontmatter(front, fallbackName).description) = 0
         THEN << Warning("frontmatter-no-description", fallbackName) >>
    ELSE <<>>

\* detectSkillContents(skillDirAbs)
detectSkillContents(tree) ==
    [ has_scripts |-> isDirectory(tree, <<n_scripts>>),
      has_references |-> isDirectory(tree, <<n_references>>),
      has_license |-> \E f \in {n_LICENSE_txt, n_LICENSE_md, n_LICENSE} :
                          pathExists(tree, <<f>>) ]

\* `/skills/downloads/${skillFolderName}.zip`
downloadUrl(skillFolderName) ==
    <<"/">> \o s_skills \o <<"/">> \o s_downloads \o <<"/">> \o skillFolderName \o s_dotzip

\* path.resolve(downloadsDir, `${skillFolderName}.zip`)
zipOutAbsOf(skillFolderName) == pathResolve(downloadsDir, skillFolderName \o s_dotzip)

(***************************************************************************)
(* build-skills.mjs: main                                                  *)
(***************************************************************************)

s_skills_json  == <<"s", "k", "i", "l", "l", "s", ".", "j", "s", "o", "n">>
s_schema_json  == <<"s", "c", "h", "e", "m", "a", ".", "j", "s", "o", "n">>
s_src          == <<"s", "r", "c">>
s_data         == <<"d", "a", "t", "a">>
s_skills_catalog_json ==
    <<"s", "k", "i", "l", "l", "s", "-", "c", "a", "t", "a", "l", "o", "g",
      ".", "j", "s", "o", "n">>

astroDataDir == <<s_website, s_src, s_data>>
skillsPublicManifestPath   == <<s_website, s_public, s_skills, s_skills_json>>
skillsSchemaPath           == <<s_website, s_public, s_skills, s_schema_json>>
skillsInternalCatalogPath  == <<s_website, s_src, s_data, s_skills_catalog_json>>

\* What a variable holds before main has assigned it.
NotBuilt == [built |-> FALSE]

OutFile(path, content) == [path |-> path, content |-> content]

PipelineIdle ==
    /\ pipeline = "none"
    /\ runNo = "first"
    /\ pc = "idle"
    /\ exitCode = 0
    /\ warnLog = <<>>
    /\ rootExists = TRUE
    /\ unreadableDirs = {}
    /\ skillsCorpus = {}
    /\ groupNames = <<>>
    /\ gIdx = 1
    /\ skillDirs = <<>>
    /\ sIdx = 1
    /\ seenSkillFolderNames = {}
    /\ packagedCount = 0
    /\ errorCount = 0
    /\ totalZipBytes = 0
    /\ groupOutPublic = NotBuilt
    /\ groupOutInternal = NotBuilt
    /\ manifestPublic = NotBuilt
    /\ manifestInternal = NotBuilt
    /\ zipWrites = <<>>
    /\ outFiles = <<>>
    /\ boundaryChecks = <<>>
    /\ prevPublic = NotBuilt
    /\ prevInternal = NotBuilt
    /\ defsCorpus = {}
    /\ providerIds = <<>>
    /\ provIdx = 1
    /\ modelTotal = 0

\* The state of a process that is about to run main.
ProcessStart ==
    /\ pc = "start"
    /\ exitCode = 0
    /\ warnLog = <<>>
    /\ groupNames = <<>>
    /\ gIdx = 1
    /\ skillDirs = <<>>
    /\ sIdx = 1
    /\ seenSkillFolderNames = {}
    /\ packagedCount = 0
    /\ errorCount = 0
    /\ totalZipBytes = 0
    /\ groupOutPublic = NotBuilt
    /\ groupOutInternal = NotBuilt
    /\ manifestPublic = NotBuilt
    /\ manifestInternal = NotBuilt
    /\ zipWrites = <<>>
    /\ outFiles = <<>>
    /\ boundaryChecks = <<>>
    /\ providerIds = <<>>
    /\ provIdx = 1
    /\ modelTotal = 0

\* main, lines 358-363 and the top-level catch: the skills root is missing.
SkillsRootMissing ==
    /\ pipeline = "skills" /\ pc = "start"
    /\ ~rootExists
    /\ pc' = "failed"
    /\ exitCode' = 1
    /\ UNCHANGED <<envVars, runNo, warnLog, errorCount, manifestPublic,
                   manifestInternal, outFiles, boundaryChecks, prevPublic, prevInternal, skillVars>>

\* main, lines 358-390: the groups are listed and the manifests and
\* counters are set up.
SkillsStart ==
    /\ pipeline = "skills" /\ pc = "start"
    /\ rootExists
    /\ groupNames' \in { listGroups(entries) :
                            entries \in enumerations(rootEntries(skillsCorpus)) }
    /\ manifestPublic' = [version |-> VERSION, generated_at |-> runNo,
                          base_url |-> BASE_URL, total_skills |-> 0, groups |-> <<>>]
    /\ manifestInternal' = [version |-> VERSION, generated_at |-> runNo,
                            base_url |-> BASE_URL, total_skills |-> 0, groups |-> <<>>]
    /\ seenSkillFolderNames' = {}
    /\ packagedCount' = 0
    /\ errorCount' = 0
    /\ totalZipBytes' = 0
    /\ gIdx' = 1
    /\ pc' = "groups"
    /\ UNCHANGED <<envVars, runNo, exitCode, warnLog, outFiles, boundaryChecks, prevPublic,
                   prevInternal, skillDirs, sIdx, groupOutPublic, groupOutInternal,
                   zipWrites>>

\* main, lines 392-408: the next group is entered and its skills listed.
SkillsEnterGroup ==
    /\ pipeline = "skills" /\ pc = "groups"
    /\ gIdx <= Len(groupNames)
    /\ groupDirAbsOf(groupNames[gIdx]) \notin unreadableDirs
    /\ LET groupName == groupNames[gIdx]
           groupSlug == slugifyGroupName(groupName)
       IN  /\ skillDirs' \in
                 { listSkillDirs(skillsCorpus, groupName, entries) :
                     entries \in enumerations(groupEntries(skillsCorpus, groupName)) }
           /\ groupOutPublic' = [name |-> groupName, slug |-> groupSlug,
                                 skill_count |-> 0, skills |-> <<>>]
           /\ groupOutInternal' = [name |-> groupName, slug |-> groupSlug,
                                   skill_count |-> 0, skills |-> <<>>]
    /\ sIdx' = 1
    /\ pc' = "skills"
    /\ UNCHANGED <<envVars, runNo, exitCode, warnLog, errorCount, manifestPublic,
                   manifestInternal, outFiles, boundaryChecks, prevPublic, prevInternal,
                   groupNames, gIdx, seenSkillFolderNames, packagedCount,
                   totalZipBytes, zipWrites>>

\* main, lines 392-396, listSkillDirs, line 165, and the top-level catch:
\* readdir of the group directory throws, and nothing catches it before
\* the end of the script.
SkillsGroupUnreadable ==
    /\ pipeline = "skills" /\ pc = "groups"
    /\ gIdx <= Len(groupNames)
    /\ groupDirAbsOf(groupNames[gIdx]) \in unreadableDirs
    /\ pc' = "failed"
    /\ exitCode' = 1
    /\ UNCHANGED <<envVars, runNo, warnLog, errorCount, manifestPublic,
                   manifestInternal, outFiles, boundaryChecks, prevPublic,
                   prevInternal, skillVars>>

\* The skill the inner loop is at, and what lines 411-418 read of it.
currentSkill == skillDirs[sIdx]
currentUnit == unitAt(skillsCorpus, groupNames[gIdx], currentSkill.dirName)
currentParsed == parseSkillFrontmatter(currentUnit.profile.front, currentSkill.dirName)
currentFrontWarnings ==
    frontmatterWarnings(currentUnit.profile.front, currentSkill.dirName)

AtSkill ==
    /\ pipeline = "skills" /\ pc = "skills"
    /\ sIdx <= Len(skillDirs)

\* The skip of a folder name seen before, without errorCount += 1
SkipDuplicateSkill_uncounted ==
    /\ AtSkill
    /\ currentSkill.dirName \in seenSkillFolderNames
    /\ sIdx' = sIdx + 1
    /\ UNCHANGED <<envVars, runVars, groupNames, gIdx, skillDirs,
                   seenSkillFolderNames, packagedCount, totalZipBytes,
                   groupOutPublic, groupOutInternal, zipWrites>>

\* main, lines 410-426: a folder name seen before is skipped.
SkipDuplicateSkill ==
    /\ AtSkill
    /\ currentSkill.dirName \in seenSkillFolderNames
    /\ warnLog' = warnLog \o currentFrontWarnings
                    \o << Warning("duplicate-skill-folder", currentSkill.dirName) >>
    /\ errorCount' = errorCount + 1
    /\ sIdx' = sIdx + 1
    /\ UNCHANGED <<envVars, runNo, pc, exitCode, manifestPublic, manifestInternal,
                   outFiles, boundaryChecks, prevPublic, prevInternal, groupNames, gIdx, skillDirs,
                   seenSkillFolderNames, packagedCount, totalZipBytes,
                   groupOutPublic, groupOutInternal, zipWrites>>

\* main, lines 410-446: the archive path is outside the downloads directory.
RefuseZipOutsideDownloads ==
    /\ AtSkill
    /\ currentSkill.dirName \notin seenSkillFolderNames
    /\ outsideDir(downloadsDir, zipOutAbsOf(currentSkill.dirName))
    /\ seenSkillFolderNames' = seenSkillFolderNames \cup {currentSkill.dirName}
    /\ warnLog' = warnLog \o currentFrontWarnings
                    \o << Warning("zip-outside-downloads", currentSkill.dirName) >>
    /\ errorCount' = errorCount + 1
    /\ sIdx' = sIdx + 1
    /\ UNCHANGED <<envVars, runNo, pc, exitCode, manifestPublic, manifestInternal,
                   outFiles, boundaryChecks, prevPublic, prevInternal, groupNames, gIdx, skillDirs,
                   packagedCount, totalZipBytes, groupOutPublic, groupOutInternal,
                   zipWrites>>

\* The records of lines 476-494.
skillPublicOf(parsed, groupSlug, skillFolderName, zipSizeBytes, fileCount, contents) ==
    [ name |-> parsed.name,
      description |-> truncate(parsed.description, PUBLIC_DESC_MAX_CHARS),
      group |-> groupSlug,
      download_url |-> downloadUrl(skillFolderName),
      zip_size_bytes |-> zipSizeBytes,
      file_count |-> fileCount,
      contents |-> contents ]

skillInternalOf(parsed, groupSlug, skillFolderName, zipSizeBytes, fileCount, contents) ==
    [ name |-> parsed.name,
      description |-> parsed.description,
      group |-> groupSlug,
      download_url |-> downloadUrl(skillFolderName),
      zip_size_bytes |-> zipSizeBytes,
      file_count |-> fileCount,
      contents |-> contents ]

\* fileCount after the try block of lines 451-472, by how packaging ends:
\* it is assigned before createSkillZip runs, and the catch block resets
\* zipSizeBytes only.
fileCountAfter(unit) ==
    IF unit.profile.pack = "countFails" THEN 0
    ELSE countIncludedFiles(unit.profile.tree)

ZipWrite(zipOutAbs, skillDirAbs) == [zipOutAbs |-> zipOutAbs, skillDirAbs |-> skillDirAbs]

\* main, lines 410-498: the skill is counted, archived and listed.
PackageSkillOk ==
    /\ AtSkill
    /\ currentSkill.dirName \notin seenSkillFolderNames
    /\ ~outsideDir(downloadsDir, zipOutAbsOf(currentSkill.dirName))
    /\ currentUnit.profile.pack = "ok"
    /\ LET zipSizeBytes == currentUnit.profile.size
           fileCount == fileCountAfter(currentUnit)
           contents == detectSkillContents(currentUnit.profile.tree)
       IN  /\ zipWrites' = Append(zipWrites,
                  ZipWrite(zipOutAbsOf(currentSkill.dirName), currentSkill.absPath))
           /\ totalZipBytes' = totalZipBytes + zipSizeBytes
           /\ packagedCount' = packagedCount + 1
           /\ groupOutPublic' = [groupOutPublic EXCEPT !.skills = Append(@,
                  skillPublicOf(currentParsed, groupOutPublic.slug,
                                currentSkill.dirName, zipSizeBytes, fileCount, contents))]
           /\ groupOutInternal' = [groupOutInternal EXCEPT !.skills = Append(@,
                  skillInternalOf(currentParsed, groupOutInternal.slug,
                                  currentSkill.dirName, zipSizeBytes, fileCount, contents))]
    /\ seenSkillFolderNames' = seenSkillFolderNames \cup {currentSkill.dirName}
    /\ warnLog' = warnLog \o currentFrontWarnings
    /\ sIdx' = sIdx + 1
    /\ UNCHANGED <<envVars, runNo, pc, exitCode, errorCount, manifestPublic,
                   manifestInternal, outFiles, boundaryChecks, prevPublic, prevInternal, groupNames,
                   gIdx, skillDirs>>

\* The failure of counting or archiving left uncaught: it reaches the
\* top-level catch and ends the run.
PackageSkillFails_uncaught ==
    /\ AtSkill
    /\ currentSkill.dirName \notin seenSkillFolderNames
    /\ ~outsideDir(downloadsDir, zipOutAbsOf(currentSkill.dirName))
    /\ currentUnit.profile.pack # "ok"
    /\ pc' = "failed"
    /\ exitCode' = 1
    /\ UNCHANGED <<envVars, runNo, warnLog, errorCount, manifestPublic,
                   manifestInternal, outFiles, boundaryChecks, prevPublic,
                   prevInternal, skillVars>>

\* main, lines 410-498 through the catch block of lines 465-472: counting
\* or archiving throws, and the skill is listed all the same.
PackageSkillFails ==
    /\ AtSkill
    /\ currentSkill.dirName \notin seenSkillFolderNames
    /\ ~outsideDir(downloadsDir, zipOutAbsOf(currentSkill.dirName))
    /\ currentUnit.profile.pack # "ok"
    /\ LET zipSizeBytes == 0
           fileCount == fileCountAfter(currentUnit)
           contents == detectSkillContents(currentUnit.profile.tree)
       IN  /\ zipWrites' =
                 IF currentUnit.profile.pack = "zipFails"
                 THEN Append(zipWrites,
                        ZipWrite(zipOutAbsOf(currentSkill.dirName), currentSkill.absPath))
                 ELSE zipWrites
           /\ groupOutPublic' = [groupOutPublic EXCEPT !.skills = Append(@,
                  skillPublicOf(currentParsed, groupOutPublic.slug,
                                currentSkill.dirName, zipSizeBytes, fileCount, contents))]
           /\ groupOutInternal' = [groupOutInternal EXCEPT !.skills = Append(@,
                  skillInternalOf(currentParsed, groupOutInternal.slug,
                                  currentSkill.dirName, zipSizeBytes, fileCount, contents))]
    /\ errorCount' = errorCount + 1
    /\ seenSkillFolderNames' = seenSkillFolderNames \cup {currentSkill.dirName}
    /\ warnLog' = warnLog \o currentFrontWarnings
                    \o << Warning("package-failed", currentSkill.dirName),
                          Warning("detail", currentSkill.dirName) >>
    /\ sIdx' = sIdx + 1
    /\ UNCHANGED <<envVars, runNo, pc, exitCode, manifestPublic, manifestInternal,
                   outFiles, boundaryChecks, prevPublic, prevInternal, groupNames, gIdx, skillDirs,
                   packagedCount, totalZipBytes>>

namesOfUnits(units) == [i \in 1..Len(units) |-> units[i].name]

\* main, lines 500-509: the skills of the group are sorted by name and the
\* group is added to the manifests.
SkillsCloseGroup ==
    /\ pipeline = "skills" /\ pc = "skills"
    /\ sIdx > Len(skillDirs)
    /\ LET sortedPublic == sortByKeys(groupOutPublic.skills,
                                      namesOfUnits(groupOutPublic.skills))
           sortedInternal == sortByKeys(groupOutInternal.skills,
                                        namesOfUnits(groupOutInternal.skills))
           donePublic == [groupOutPublic EXCEPT !.skills = sortedPublic,
                                                !.skill_count = Len(sortedPublic)]
           doneInternal == [groupOutInternal EXCEPT !.skills = sortedInternal,
                                                    !.skill_count = Len(sortedInternal)]
       IN  /\ groupOutPublic' = donePublic
           /\ groupOutInternal' = doneInternal
           /\ manifestPublic' = [manifestPublic EXCEPT !.groups = Append(@, donePublic)]
           /\ manifestInternal' = [manifestInternal EXCEPT !.groups = Append(@, doneInternal)]
    /\ gIdx' = gIdx + 1
    /\ pc' = "groups"
    /\ UNCHANGED <<envVars, runNo, exitCode, warnLog, errorCount, outFiles,
                   boundaryChecks, prevPublic, prevInternal, groupNames, skillDirs, sIdx,
                   seenSkillFolderNames, packagedCount, totalZipBytes, zipWrites>>

\* The number of groups instead of the sum of their skill_count
sumSkillCounts_countsGroups(groups) == Len(groups)

\* groups.reduce((acc, g) => acc + g.skill_count, 0)
RECURSIVE sumSkillCounts(_)
sumSkillCounts(groups) ==
    IF Len(groups) = 0 THEN 0
    ELSE groups[1].skill_count + sumSkillCounts(Tail(groups))

\* main, lines 511-531: the totals are computed and the three files written.
SkillsFinish ==
    /\ pipeline = "skills" /\ pc = "groups"
    /\ gIdx > Len(groupNames)
    /\ LET finalPublic == [manifestPublic EXCEPT
                              !.total_skills = sumSkillCounts(manifestPublic.groups)]
           finalInternal == [manifestInternal EXCEPT
                              !.total_skills = sumSkillCounts(manifestInternal.groups)]
       IN  /\ manifestPublic' = finalPublic
           /\ manifestInternal' = finalInternal
           /\ outFiles' = outFiles \o
                 << OutFile(skillsPublicManifestPath, "manifestPublic"),
                    OutFile(skillsInternalCatalogPath, "manifestInternal"),
                    OutFile(skillsSchemaPath, "schema") >>
    /\ pc' = "done"
    /\ UNCHANGED <<envVars, runNo, exitCode, warnLog, errorCount, boundaryChecks, prevPublic,
                   prevInternal, skillVars>>

\* The script is run again on the same corpus: the files of the run before
\* are on disk, and a new process starts.
Rerun ==
    /\ pc = "done"
    /\ runNo = "first"
    /\ runNo' = "second"
    /\ prevPublic' = manifestPublic
    /\ prevInternal' = manifestInternal
    /\ pc' = "start"
    /\ exitCode' = 0
    /\ warnLog' = <<>>
    /\ groupNames' = <<>>
    /\ gIdx' = 1
    /\ skillDirs' = <<>>
    /\ sIdx' = 1
    /\ seenSkillFolderNames' = {}
    /\ packagedCount' = 0
    /\ errorCount' = 0
    /\ totalZipBytes' = 0
    /\ groupOutPublic' = NotBuilt
    /\ groupOutInternal' = NotBuilt
    /\ manifestPublic' = NotBuilt
    /\ manifestInternal' = NotBuilt
    /\ zipWrites' = <<>>
    /\ outFiles' = <<>>
    /\ boundaryChecks' = <<>>
    /\ providerIds' = <<>>
    /\ provIdx' = 1
    /\ modelTotal' = 0
    /\ UNCHANGED <<envVars, defsCorpus>>

(***************************************************************************)
(* build-definitions.mjs: values read from TOML                            *)
(***************************************************************************)

s_models_dev  == <<"m", "o", "d", "e", "l", "s", ".", "d", "e", "v">>
s_providers   == <<"p", "r", "o", "v", "i", "d", "e", "r", "s">>
s_definitions == <<"d", "e", "f", "i", "n", "i", "t", "i", "o", "n", "s">>
s_definitions_json == <<"d", "e", "f", "i", "n", "i", "t", "i", "o", "n", "s", ".", "j", "s", "o", "n">>
s_definitions_catalog_json == <<"d", "e", "f", "i", "n", "i", "t", "i", "o", "n", "s", "-", "c", "a", "t", "a", "l", "o", "g", ".", "j", "s", "o", "n">>
s_dot_toml    == <<".", "t", "o", "m", "l">>

ALLOWED_STATUSES == { <<"a", "l", "p", "h", "a">>, <<"b", "e", "t", "a">>, <<"d", "e", "p", "r", "e", "c", "a", "t", "e", "d">> }

repoRootDir == pathResolve(websiteDir, <<".", ".">>)
providersRootDir == pathResolve(pathResolve(repoRootDir, s_models_dev), s_providers)
publicDefinitionsDir == pathResolve(publicDir, s_definitions)
defsPublicManifestPath == pathResolve(publicDefinitionsDir, s_definitions_json)
defsSchemaPath == pathResolve(publicDefinitionsDir, s_schema_json)
defsInternalCatalogPath == pathResolve(astroDataDir, s_definitions_catalog_json)

\* Values of the other JavaScript types: a number is kept as its decimal
\* text, and is not finite when the text is Infinity, -Infinity or NaN.
JsBoolean(b) == [t |-> "boolean", v |-> IF b THEN <<"true">> ELSE <<"false">>]
JsNumber(text) == [t |-> "number", v |-> text]
JsNull == [t |-> "null", v |-> <<>>]
JsArray(items) == [t |-> "array", items |-> items]
NonFinite == { <<"I", "n", "f", "i", "n", "i", "t", "y">>, <<"-", "I", "n", "f", "i", "n", "i", "t", "y">>, <<"N", "a", "N">> }

isPlainObject(val) == val.t = "table"

asString(val) == IF val.t = "string" THEN val ELSE JsUndefined

\* asStringArray(val): undefined, or the strings of the array
RECURSIVE stringsOf(_)
stringsOf(items) ==
    IF Len(items) = 0 THEN <<>>
    ELSE IF items[1].t = "string" THEN <<items[1].v>> \o stringsOf(Tail(items))
    ELSE stringsOf(Tail(items))

asStringArray(val) ==
    IF val.t # "array" THEN [defined |-> FALSE, items |-> <<>>]
    ELSE [defined |-> TRUE, items |-> stringsOf(val.items)]

asBoolean(val) == IF val.t = "boolean" THEN val ELSE JsUndefined

asNumber(val) ==
    IF val.t = "number" /\ val.v \notin NonFinite THEN val ELSE JsUndefined

\* asString(x)?.trim()
trimmedString(val) ==
    IF val.t = "string" THEN JsString(trim(val.v)) ELSE JsUndefined

\* !x, for x a string or undefined
falsy(val) == val.t # "string" \/ Len(val.v) = 0

\* x ?? fallback
orIfNullish(val, fallback) == IF val.t \in {"undefined", "null"} THEN fallback ELSE val

\* x || undefined and x || null, for x a string or undefined
orUndefined(val) == IF falsy(val) THEN JsUndefined ELSE val
orNull(val) == IF falsy(val) THEN JsNull ELSE val

\* A table of the TOML document that is absent
NoTable == [t |-> "undefined"]

\* The [cost], [limit] and [modalities] tables of a model document
CostTable(input, output, cache_read) ==
    [t |-> "table", input |-> input, output |-> output, cache_read |-> cache_read]
LimitTable(context, output, input) ==
    [t |-> "table", context |-> context, output |-> output, input |-> input]
ModalitiesTable(input, output) ==
    [t |-> "table", input |-> input, output |-> output]

t_Alpha == <<"A", "l", "p", "h", "a">>
t_fam   == <<"f", "a", "m">>
t_2024  == <<"2", "0", "2", "4", "-", "0", "5", "-", "0", "1">>
t_2025  == <<"2", "0", "2", "5", "-", "0", "1", "-", "1", "5">>
t_Beta  == <<" ", "B", "e", "t", "a">>
t_text  == <<"t", "e", "x", "t">>
t_image == <<"i", "m", "a", "g", "e">>
t_3     == <<"3">>
t_15    == <<"1", "5">>
t_8192  == <<"8", "1", "9", "2">>
t_4096  == <<"4", "0", "9", "6">>

t_free  == <<"f", "r", "e", "e">>
t_Infinity == <<"I", "n", "f", "i", "n", "i", "t", "y">>
t_NaN == <<"N", "a", "N">>

\* The model documents of the corpus, by what is in them: one with every
\* field, one with the required boolean reasoning missing, one whose
\* numeric fields hold strings, inf and nan, and one that smol-toml cannot
\* parse.
ModelDocKinds == {"complete", "missingBoolean", "badNumbers", "unparsable"}

completeModelToml ==
    [ name |-> JsString(t_Alpha),
      family |-> JsString(t_fam),
      release_date |-> JsString(t_2024),
      last_updated |-> JsString(t_2025),
      attachment |-> JsBoolean(TRUE),
      reasoning |-> JsBoolean(TRUE),
      tool_call |-> JsBoolean(FALSE),
      open_weights |-> JsBoolean(FALSE),
      temperature |-> JsBoolean(TRUE),
      structured_output |-> JsUndefined,
      knowledge |-> JsUndefined,
      status |-> JsString(t_Beta),
      description |-> JsString(<<" ">> \o t_d),
      cost |-> CostTable(JsNumber(t_3), JsNumber(t_15), JsNumber(t_3)),
      limit |-> LimitTable(JsNumber(t_8192), JsNumber(t_4096), JsUndefined),
      modalities |-> ModalitiesTable(JsArray(<<JsString(t_text), JsString(t_image)>>),
                                     JsArray(<<JsString(t_text)>>)) ]

\* cost.input = "free", cost.output = inf, cost.cache_read = nan,
\* limit.context = nan, limit.output = "4096", limit.input = inf
badNumbersModelToml ==
    [ completeModelToml EXCEPT
        !.cost = CostTable(JsString(t_free), JsNumber(t_Infinity), JsNumber(t_NaN)),
        !.limit = LimitTable(JsNumber(t_NaN), JsString(t_4096), JsNumber(t_Infinity)) ]

\* readFile and parseToml of readTomlFile: the parsed document, or that
\* parsing threw.
parseToml(kind) ==
    IF kind = "unparsable" THEN [threw |-> TRUE, doc |-> JsNull]
    ELSE IF kind = "missingBoolean"
         THEN [threw |-> FALSE,
               doc |-> [completeModelToml EXCEPT !.reasoning = JsUndefined]]
    ELSE IF kind = "badNumbers"
         THEN [threw |-> FALSE, doc |-> badNumbersModelToml]
    ELSE [threw |-> FALSE, doc |-> completeModelToml]

\* The label of a model in warnings: `${providerId}/${modelId}`
modelLabel(providerId, modelId) == providerId \o <<"/">> \o modelId

\* The console.warn calls of readTomlFile
readTomlWarnings(parsed, label) ==
    IF parsed.threw
    THEN << Warning("toml-parse-failed", label), Warning("detail", label) >>
    ELSE <<>>

statusOf(modelToml) ==
    LET s == trimmedString(modelToml.status)
    IN  IF s.t = "string" THEN JsString(toLowerCase(s.v)) ELSE s

limitOf(modelToml) == IF isPlainObject(modelToml.limit) THEN modelToml.limit ELSE NoTable
modalitiesOf(modelToml) ==
    IF isPlainObject(modelToml.modalities) THEN modelToml.modalities ELSE NoTable
limitFieldOf(limit, field) ==
    IF ~isPlainObject(limit) THEN JsUndefined
    ELSE asNumber(CASE field = "context" -> limit.context
                    [] field = "output" -> limit.output
                    [] OTHER -> limit.input)

warnIf(cond, kind, label) == IF cond THEN << Warning(kind, label) >> ELSE <<>>

\* The warn calls of normalizeModelToml, in the order it makes them
normalizeModelWarnings(providerId, modelId, modelToml) ==
    LET label == modelLabel(providerId, modelId)
        statusRaw == statusOf(modelToml)
    IN  warnIf(falsy(trimmedString(modelToml.name)), "missing-string-name", label)
        \o warnIf(falsy(trimmedString(modelToml.release_date)),
                  "missing-string-release_date", label)
        \o warnIf(falsy(trimmedString(modelToml.last_updated)),
                  "missing-string-last_updated", label)
        \o warnIf(asBoolean(modelToml.attachment).t = "undefined",
                  "missing-boolean-attachment", label)
        \o warnIf(asBoolean(modelToml.reasoning).t = "undefined",
                  "missing-boolean-reasoning", label)
        \o warnIf(asBoolean(modelToml.tool_call).t = "undefined",
                  "missing-boolean-tool_call", label)
        \o warnIf(asBoolean(modelToml.open_weights).t = "undefined",
                  "missing-boolean-open_weights", label)
        \o warnIf(~falsy(statusRaw) /\ statusRaw.v \notin ALLOWED_STATUSES,
                  "unknown-status", label)
        \o warnIf(~isPlainObject(modelToml.limit), "missing-table-limit", label)
        \o warnIf(limitFieldOf(limitOf(modelToml), "context").t = "undefined",
                  "missing-number-limit.context", label)
        \o warnIf(limitFieldOf(limitOf(modelToml), "output").t = "undefined",
                  "missing-number-limit.output", label)
        \o warnIf(~isPlainObject(modelToml.modalities), "missing-table-modalities", label)

\* normalizeModelToml: the record it returns. A key whose value is
\* undefined is a key JSON.stringify leaves out.
normalizeModelToml(providerId, modelId, modelToml) ==
    LET nameRaw == trimmedString(modelToml.name)
        statusRaw == statusOf(modelToml)
        limit == limitOf(modelToml)
        modalities == modalitiesOf(modelToml)
    IN  [ id |-> modelId,
          name |-> IF falsy(nameRaw) THEN modelId ELSE nameRaw.v,
          family |-> orUndefined(trimmedString(modelToml.family)),
          provider |-> providerId,
          release_date |-> orNull(trimmedString(modelToml.release_date)),
          last_updated |-> orNull(trimmedString(modelToml.last_updated)),
          attachment |-> orIfNullish(asBoolean(modelToml.attachment), JsBoolean(FALSE)),
          reasoning |-> orIfNullish(asBoolean(modelToml.reasoning), JsBoolean(FALSE)),
          tool_call |-> orIfNullish(asBoolean(modelToml.tool_call), JsBoolean(FALSE)),
          open_weights |-> orIfNullish(asBoolean(modelToml.open_weights), JsBoolean(FALSE)),
          temperature |-> asBoolean(modelToml.temperature),
          structured_output |-> asBoolean(modelToml.structured_output),
          knowledge |-> orUndefined(trimmedString(modelToml.knowledge)),
          status |-> IF ~falsy(statusRaw) /\ statusRaw.v \in ALLOWED_STATUSES
                     THEN statusRaw ELSE JsUndefined,
          description |-> orUndefined(trimmedString(modelToml.description)),
          cost |-> IF isPlainObject(modelToml.cost)
                   THEN modelToml.cost
                   ELSE CostTable(JsUndefined, JsUndefined, JsUndefined),
          has_cost |-> isPlainObject(modelToml.cost),
          limit |-> [ context |-> orIfNullish(limitFieldOf(limit, "context"), JsNull),
                      output |-> orIfNullish(limitFieldOf(limit, "output"), JsNull),
                      input |-> limitFieldOf(limit, "input") ],
          modalities |->
              [ input |-> IF isPlainObject(modalities)
                          THEN asStringArray(modalities.input).items ELSE <<>>,
                output |-> IF isPlainObject(modalities)
                           THEN asStringArray(modalities.output).items ELSE <<>> ] ]

\* The internal record passed on as the public one
toPublicModel_internal(modelInternal) == modelInternal

\* toPublicModel
toPublicModel(modelInternal) ==
    LET input == IF modelInternal.has_cost THEN asNumber(modelInternal.cost.input)
                 ELSE JsUndefined
        output == IF modelInternal.has_cost THEN asNumber(modelInternal.cost.output)
                  ELSE JsUndefined
        hasPublicCost == input.t # "undefined" \/ output.t # "undefined"
    IN  [ id |-> modelInternal.id,
          name |-> modelInternal.name,
          family |-> modelInternal.family,
          provider |-> modelInternal.provider,
          release_date |-> modelInternal.release_date,
          last_updated |-> modelInternal.last_updated,
          attachment |-> modelInternal.attachment,
          reasoning |-> modelInternal.reasoning,
          tool_call |-> modelInternal.tool_call,
          open_weights |-> modelInternal.open_weights,
          temperature |-> modelInternal.temperature,
          structured_output |-> modelInternal.structured_output,
          knowledge |-> modelInternal.knowledge,
          status |-> modelInternal.status,
          description |->
              IF falsy(modelInternal.description) THEN JsUndefined
              ELSE JsString(truncate(modelInternal.description.v, PUBLIC_DESC_MAX_CHARS)),
          modalities |-> modelInternal.modalities,
          limit |-> modelInternal.limit,
          cost |-> IF hasPublicCost THEN CostTable(input, output, JsUndefined)
                   ELSE CostTable(JsUndefined, JsUndefined, JsUndefined),
          has_cost |-> hasPublicCost ]

(***************************************************************************)
(* build-definitions.mjs: the corpus and main                              *)
(***************************************************************************)

p_acme == <<"a", "c", "m", "e">>
p_Acme == <<"A", "c", "m", "e">>
n_models   == <<"m", "o", "d", "e", "l", "s">>
n_a_toml   == <<"a", ".", "t", "o", "m", "l">>
n_a_TOML   == <<"a", ".", "T", "O", "M", "L">>
n_sub      == <<"s", "u", "b">>
n_b_toml   == <<"b", ".", "t", "o", "m", "l">>
n_c_toml   == <<"c", ".", "t", "o", "m", "l">>
t_KEY == <<"A", "C", "M", "E", "_", "K", "E", "Y">>
t_pkg == <<"a", "c", "m", "e", "-", "s", "d", "k">>
t_url == <<"a", "c", "m", "e", ".", "d", "e", "v", "/", "d", "o", "c", "s">>

ProviderDirNames == {p_acme, p_Acme}

\* A provider directory as the run finds it: not there; with a
\* provider.toml, a logo.svg and a models/ directory ("named"); or with
\* none of the first two, and a models/ directory only if it holds model
\* files ("bare").
ProviderKinds == {"absent", "named", "bare"}

\* The model files of the corpora: two names that differ in the case of
\* the extension only, under the models/ directory of one provider.
ModelFileNames == {n_a_toml, n_a_TOML}
ModelFileProviders == {p_acme}

ModelFiles ==
    { [provider |-> p, name |-> n, kind |-> k] :
        p \in ModelFileProviders, n \in ModelFileNames, k \in ModelDocKinds }

\* The corpora of the model: the provider directories, and at most MaxUnits
\* model files put directly under their models/ directories, no two at
\* the same place. Every models/ directory also holds sub/b.toml (a
\* complete document), sub/README and .git/c.toml.
DefinitionsCorpora ==
    { [providers |-> pk, files |-> fs] :
        pk \in [ProviderDirNames -> ProviderKinds],
        fs \in { x \in SUBSET ModelFiles : Cardinality(x) <= MaxUnits } } 

IsDefinitionsCorpus(c) ==
    /\ \A f \in c.files : c.providers[f.provider] # "absent"
    /\ \A f, g \in c.files : (f.provider = g.provider /\ f.name = g.name) => f = g

NoCorpus == [providers |-> [p \in ProviderDirNames |-> "absent"], files |-> {}]

\* fsp.readdir(providersRootDir): the provider directories, a .git
\* directory and a file.
providerRootEntries(corpus) ==
    { [name |-> p, kind |-> "dir"] :
        p \in { q \in ProviderDirNames : corpus.providers[q] # "absent" } }
        \cup { [name |-> n_git, kind |-> "dir"], [name |-> n_README, kind |-> "file"] }

RECURSIVE keepProviderDirs(_)
keepProviderDirs(entries) ==
    IF Len(entries) = 0 THEN <<>>
    ELSE IF entries[1].kind # "dir" THEN keepProviderDirs(Tail(entries))
    ELSE IF shouldExcludePath(entries[1].name, TRUE) THEN keepProviderDirs(Tail(entries))
    ELSE <<entries[1].name>> \o keepProviderDirs(Tail(entries))

\* listProviderDirs, given the order readdir returned the entries in
listProviderDirs(entries) == sortAlphaCaseInsensitive(keepProviderDirs(entries))

filesOf(corpus, providerId) == { f \in corpus.files : f.provider = providerId }

modelsDirExists(corpus, providerId) ==
    \/ corpus.providers[providerId] = "named"
    \/ filesOf(corpus, providerId) # {}

\* The tree under models/ of a provider
modelsTree(corpus, providerId) ==
    IF ~modelsDirExists(corpus, providerId) THEN {}
    ELSE { Entry(<<f.name>>, "file") : f \in filesOf(corpus, providerId) }
         \cup { Entry(<<n_sub>>, "dir"),
                Entry(<<n_sub, n_b_toml>>, "file"),
                Entry(<<n_sub, n_README>>, "file"),
                Entry(<<n_git>>, "dir"),
                Entry(<<n_git, n_c_toml>>, "file") }

\* path.resolve(providerDirAbs, 'models')
modelsRootAbsOf(providerId) ==
    pathResolve(pathResolve(providersRootDir, providerId), n_models)

\* The directories readdir may fail on, and the sets of unreadable
\* directories a corpus may come with.
UnreadableProviderNames == {p_acme}
UnreadableDefinitionDirs(corpus) ==
    { {} } \cup { {providersRootDir} }
        \cup { {d} : d \in UNION { { modelsRootAbsOf(p),
                                      pathResolve(modelsRootAbsOf(p), n_sub) } :
                                    p \in { q \in UnreadableProviderNames :
                                               modelsDirExists(corpus, q) } } }

\* The labels safeReadDir is called with, lines 380 and 398
l_providers_root == <<"p", "r", "o", "v", "i", "d", "e", "r", "s", " ", "r", "o", "o", "t">>
l_models_scan == <<"m", "o", "d", "e", "l", "s", " ", "s", "c", "a", "n", ":", " ">>
l_root == <<"<", "r", "o", "o", "t", ">">>
scanLabel(relFromModelsRoot) ==
    l_models_scan \o (IF Len(relFromModelsRoot) > 0 THEN relFromModelsRoot ELSE l_root)

\* safeReadDir(dirAbs, { label }): the entries readdir returned, or none
\* when it throws
safeReadDir(dirAbs, entries) == IF dirAbs \in unreadableDirs THEN <<>> ELSE entries

\* The warn calls of safeReadDir; every caller passes a label
safeReadDirWarnings(dirAbs, label) ==
    IF dirAbs \in unreadableDirs
    THEN << Warning("readdir-failed", label), Warning("detail", label) >>
    ELSE <<>>

\* What the file at a path under models/ holds
docKindAt(corpus, providerId, path) ==
    IF Len(path) = 1
    THEN (CHOOSE f \in filesOf(corpus, providerId) : f.name = path[1]).kind
    ELSE "complete"

\* walk(dirAbs, relFromModelsRoot) of listModelTomlFiles, over the entries
\* readdir returned and not yet visited; orderOf gives, for a directory,
\* the order readdir returns its entries in.
RECURSIVE walkModels(_, _, _, _)
walkModels(tree, relFromModelsRoot, entries, orderOf) ==
    IF Len(entries) = 0 THEN <<>>
    ELSE LET ent == entries[1]
             name == ent.path[Len(ent.path)]
             childRel == childRelOf(relFromModelsRoot, name)
             rest == walkModels(tree, relFromModelsRoot, Tail(entries), orderOf)
         IN  IF shouldExcludePath(childRel, ent.kind = "dir") THEN rest
             ELSE IF ent.kind = "dir"
                  THEN walkModels(tree, childRel, orderOf[ent.path], orderOf) \o rest
             ELSE IF ent.kind = "file"
                  THEN IF ~endsWith(toLowerCase(name), s_dot_toml) THEN rest
                       ELSE << [path |-> ent.path, rel |-> childRel] >> \o rest
             ELSE rest

listModelTomlFiles(tree, orderOf) ==
    LET out == walkModels(tree, <<>>, orderOf[<<>>], orderOf)
    IN  sortByKeys(out, [i \in 1..Len(out) |-> out[i].rel])

\* What safeReadDir may return for models/ and for models/sub: their
\* entries in any order, or none when the directory cannot be read.
readOrders(tree, modelsRootAbs) ==
    { [d \in {<<>>, <<n_sub>>} |->
         IF d = <<>> THEN safeReadDir(modelsRootAbs, rootOrder)
         ELSE safeReadDir(pathResolve(modelsRootAbs, n_sub), subOrder)] :
        rootOrder \in enumerations(readdir(tree, <<>>)),
        subOrder \in enumerations(readdir(tree, <<n_sub>>)) }

\* relPosix.replace(/\.toml$/i, '')
modelIdOf(relPosix) ==
    IF endsWith(toLowerCase(relPosix), s_dot_toml)
    THEN SubSeq(relPosix, 1, Len(relPosix) - Len(s_dot_toml))
    ELSE relPosix

\* The provider.toml of a "named" provider, and the {} used without one
namedProviderToml ==
    [ name |-> JsString(<<" ">> \o p_Acme), env |-> JsArray(<<JsString(t_KEY)>>),
      npm |-> JsString(t_pkg), doc |-> JsString(t_url), api |-> JsUndefined ]
emptyProviderToml ==
    [ name |-> JsUndefined, env |-> JsUndefined, npm |-> JsUndefined,
      doc |-> JsUndefined, api |-> JsUndefined ]

\* The warn calls of normalizeProviderToml
normalizeProviderWarnings(providerId, providerToml) ==
    warnIf(falsy(trimmedString(providerToml.name)), "provider-missing-name", providerId)
    \o warnIf(Len(asStringArray(providerToml.env).items) = 0,
              "provider-missing-env", providerId)
    \o warnIf(falsy(trimmedString(providerToml.npm)), "provider-missing-npm", providerId)
    \o warnIf(falsy(trimmedString(providerToml.doc)), "provider-missing-doc", providerId)

normalizeProviderToml(providerId, providerToml) ==
    [ id |-> providerId,
      name |-> IF falsy(trimmedString(providerToml.name)) THEN providerId
               ELSE trimmedString(providerToml.name).v,
      env |-> asStringArray(providerToml.env).items,
      npm |-> IF falsy(trimmedString(providerToml.npm)) THEN <<>>
              ELSE trimmedString(providerToml.npm).v,
      doc |-> IF falsy(trimmedString(providerToml.doc)) THEN <<>>
              ELSE trimmedString(providerToml.doc).v,
      api |-> orUndefined(trimmedString(providerToml.api)) ]

\* The inner loop of main, lines 601-622: the models read from modelFiles
\* and the warnings of reading them.
RECURSIVE readModels(_, _, _)
readModels(corpus, providerId, modelFiles) ==
    IF Len(modelFiles) = 0 THEN [models |-> <<>>, warnings |-> <<>>]
    ELSE LET f == modelFiles[1]
             modelId == modelIdOf(f.rel)
             parsed == parseToml(docKindAt(corpus, providerId, f.path))
             rest == readModels(corpus, providerId, Tail(modelFiles))
         IN  IF parsed.threw
             THEN [models |-> rest.models,
                   warnings |-> readTomlWarnings(parsed, modelLabel(providerId, modelId))
                                  \o rest.warnings]
             ELSE [models |-> <<normalizeModelToml(providerId, modelId, parsed.doc)>>
                                \o rest.models,
                   warnings |-> normalizeModelWarnings(providerId, modelId, parsed.doc)
                                  \o rest.warnings]

\* The public models listed in the opposite order
mapToPublicModel_reversed(models) ==
    [i \in 1..Len(models) |-> toPublicModel(models[Len(models) + 1 - i])]

mapToPublicModel(models) == [i \in 1..Len(models) |-> toPublicModel(models[i])]

\* assertInsideDir(baseDirAbs, targetAbs, label) throws
assertInsideDirThrows(baseDirAbs, targetAbs) == outsideDir(baseDirAbs, targetAbs)

\* The assertInsideDir calls of main, lines 668-670, in order
outputChecks ==
    << [baseDirAbs |-> publicDefinitionsDir, targetAbs |-> defsPublicManifestPath],
       [baseDirAbs |-> astroDataDir, targetAbs |-> defsInternalCatalogPath],
       [baseDirAbs |-> publicDefinitionsDir, targetAbs |-> defsSchemaPath] >>

\* The calls that return before one of them throws
RECURSIVE checksPassed(_)
checksPassed(checks) ==
    IF Len(checks) = 0 THEN <<>>
    ELSE IF assertInsideDirThrows(checks[1].baseDirAbs, checks[1].targetAbs) THEN <<>>
    ELSE <<checks[1]>> \o checksPassed(Tail(checks))

\* main, lines 539-550: the providers root is missing; main returns.
DefinitionsRootMissing ==
    /\ pipeline = "definitions" /\ pc = "start"
    /\ ~rootExists
    /\ pc' = "skipped"
    /\ UNCHANGED <<envVars, defsCorpus, runNo, exitCode, warnLog, errorCount,
                   manifestPublic, manifestInternal, outFiles, boundaryChecks, prevPublic, prevInternal,
                   providerIds, provIdx, modelTotal>>

\* main, lines 537-576: the providers are listed and the manifests set up.
DefinitionsStart ==
    /\ pipeline = "definitions" /\ pc = "start"
    /\ rootExists
    /\ providerIds' \in { listProviderDirs(safeReadDir(providersRootDir, entries)) :
                             entries \in enumerations(providerRootEntries(defsCorpus)) }
    /\ warnLog' = warnLog \o safeReadDirWarnings(providersRootDir, l_providers_root)
    /\ manifestPublic' = [version |-> VERSION, generated_at |-> runNo,
                          base_url |-> BASE_URL, total_providers |-> 0,
                          total_models |-> 0, providers |-> <<>>]
    /\ manifestInternal' = [version |-> VERSION, generated_at |-> runNo,
                            base_url |-> BASE_URL, total_providers |-> 0,
                            total_models |-> 0, providers |-> <<>>]
    /\ modelTotal' = 0
    /\ provIdx' = 1
    /\ pc' = "providers"
    /\ UNCHANGED <<envVars, defsCorpus, runNo, exitCode, errorCount,
                   outFiles, boundaryChecks, prevPublic, prevInternal>>

\* main, lines 578-654: one provider is read, its models listed, read,
\* normalised and sorted, and the provider added to both manifests.
DefinitionsProvider ==
    /\ pipeline = "definitions" /\ pc = "providers"
    /\ provIdx <= Len(providerIds)
    /\ LET providerId == providerIds[provIdx]
           providerTomlExists == defsCorpus.providers[providerId] = "named"
           providerToml == IF providerTomlExists THEN namedProviderToml
                           ELSE emptyProviderToml
           providerMeta == normalizeProviderToml(providerId, providerToml)
           hasLogo == defsCorpus.providers[providerId] = "named"
           hasModelsDir == modelsDirExists(defsCorpus, providerId)
           tree == modelsTree(defsCorpus, providerId)
           \* the orders readdir may return the entries of models/ and
           \* of models/sub in
           modelsRootAbs == modelsRootAbsOf(providerId)
           subAbs == pathResolve(modelsRootAbs, n_sub)
           \* models/sub is read when the entries of models/ were
           scanWarnings ==
               safeReadDirWarnings(modelsRootAbs, scanLabel(<<>>))
               \o (IF modelsRootAbs \in unreadableDirs THEN <<>>
                   ELSE safeReadDirWarnings(subAbs, scanLabel(n_sub)))
       IN  \E modelFiles \in
                 IF hasModelsDir
                 THEN { listModelTomlFiles(tree, orderOf) :
                          orderOf \in readOrders(tree, modelsRootAbs) }
                 ELSE { <<>> } :
              LET read == readModels(defsCorpus, providerId, modelFiles)
                  modelsInternal == sortByKeys(read.models, namesOfUnits(read.models))
                  providerOutInternal ==
                      [ id |-> providerMeta.id, name |-> providerMeta.name,
                        env |-> providerMeta.env, npm |-> providerMeta.npm,
                        doc |-> providerMeta.doc, api |-> providerMeta.api,
                        has_logo |-> hasLogo, model_count |-> Len(modelsInternal),
                        models |-> modelsInternal ]
                  providerOutPublic ==
                      [ id |-> providerMeta.id, name |-> providerMeta.name,
                        npm |-> providerMeta.npm, doc |-> providerMeta.doc,
                        api |-> providerMeta.api, has_logo |-> hasLogo,
                        model_count |-> Len(modelsInternal),
                        models |-> mapToPublicModel(modelsInternal) ]
              IN  /\ manifestInternal' = [manifestInternal EXCEPT
                                            !.providers = Append(@, providerOutInternal)]
                  /\ manifestPublic' = [manifestPublic EXCEPT
                                          !.providers = Append(@, providerOutPublic)]
                  /\ modelTotal' = modelTotal + Len(modelsInternal)
                  /\ warnLog' = warnLog
                        \o warnIf(~providerTomlExists, "missing-provider-toml", providerId)
                        \o normalizeProviderWarnings(providerId, providerToml)
                        \o warnIf(~hasModelsDir, "no-models-directory", providerId)
                        \o (IF hasModelsDir THEN scanWarnings ELSE <<>>)
                        \o read.warnings
    /\ provIdx' = provIdx + 1
    /\ UNCHANGED <<envVars, defsCorpus, runNo, pc, exitCode, errorCount, outFiles,
                   boundaryChecks, prevPublic, prevInternal, providerIds>>

\* main, lines 656-682: the providers are sorted by name, the totals set,
\* the three output paths checked and the three files written.
DefinitionsFinish ==
    /\ pipeline = "definitions" /\ pc = "providers"
    /\ provIdx > Len(providerIds)
    /\ LET finalInternal ==
               [manifestInternal EXCEPT
                  !.providers = sortByKeys(manifestInternal.providers,
                                          namesOfUnits(manifestInternal.providers)),
                  !.total_providers = Len(manifestInternal.providers),
                  !.total_models = modelTotal]
           finalPublic ==
               [manifestPublic EXCEPT
                  !.providers = sortByKeys(manifestPublic.providers,
                                          namesOfUnits(manifestPublic.providers)),
                  !.total_providers = Len(manifestPublic.providers),
                  !.total_models = modelTotal]
           passed == checksPassed(outputChecks)
           violation == Len(passed) < Len(outputChecks)
       IN  /\ manifestInternal' = finalInternal
           /\ manifestPublic' = finalPublic
           /\ boundaryChecks' = boundaryChecks \o passed
           /\ IF violation
              THEN /\ pc' = "failed"
                   /\ exitCode' = 1
                   /\ outFiles' = outFiles
              ELSE /\ pc' = "done"
                   /\ exitCode' = exitCode
                   /\ outFiles' = outFiles \o
                         << OutFile(defsPublicManifestPath, "manifestPublic"),
                            OutFile(defsInternalCatalogPath, "manifestInternal"),
                            OutFile(defsSchemaPath, "schema") >>
    /\ UNCHANGED <<envVars, defsCorpus, runNo, warnLog, errorCount, prevPublic,
                   prevInternal, providerIds, provIdx, modelTotal>>

(***************************************************************************)
(* Specifications                                                          *)
(***************************************************************************)

vars == <<pureVars, envVars, runVars, skillVars, defVars>>

InitFilter == FilterIdle /\ TruncIdle /\ PackIdle /\ PipelineIdle

NextFilter ==
    \E name \in FilterNames, dirFlag \in BOOLEAN :
        Classify(name, dirFlag) /\ UNCHANGED <<truncVars, packVars, envVars, runVars, skillVars, defVars>>

SpecFilter == InitFilter /\ [][NextFilter]_vars

InitTruncate ==
    /\ FilterIdle /\ PackIdle /\ PipelineIdle
    /\ tStr \in Descriptions
    /\ tOut = <<>>
    /\ tDone = FALSE

NextTruncate ==
    PublicDescription /\ UNCHANGED <<filterVars, packVars, envVars, runVars, skillVars, defVars>>

SpecTruncate == InitTruncate /\ [][NextTruncate]_vars

InitPack ==
    /\ FilterIdle /\ TruncIdle /\ PipelineIdle
    /\ pTree \in Trees
    /\ pFolder = n_sk
    /\ pPrefixed \in BOOLEAN
    /\ pFileCount = 0
    /\ pArchive = {}
    /\ pDone = FALSE

NextPack ==
    PackageSkill /\ UNCHANGED <<filterVars, truncVars, envVars, runVars, skillVars, defVars>>

SpecPack == InitPack /\ [][NextPack]_vars

Init ==
    /\ FilterIdle /\ TruncIdle /\ PackIdle
    /\ pipeline \in {"skills", "definitions"}
    /\ runNo = "first"
    /\ rootExists \in BOOLEAN
    /\ skillsCorpus \in (IF pipeline = "skills" /\ rootExists THEN Corpora ELSE { {} })
    /\ defsCorpus \in (IF pipeline = "definitions" /\ rootExists
                        THEN { c \in DefinitionsCorpora : IsDefinitionsCorpus(c) }
                        ELSE { NoCorpus })
    /\ unreadableDirs \in (IF ~rootExists THEN { {} }
                            ELSE IF pipeline = "skills"
                                 THEN UnreadableSkillDirs(skillsCorpus)
                            ELSE UnreadableDefinitionDirs(defsCorpus))
    /\ prevPublic = NotBuilt
    /\ prevInternal = NotBuilt
    /\ ProcessStart

Next ==
    \/ SkillsRootMissing /\ UNCHANGED <<pureVars, defVars>>
    \/ SkillsStart /\ UNCHANGED <<pureVars, defVars>>
    \/ SkillsEnterGroup /\ UNCHANGED <<pureVars, defVars>>
    \/ SkillsGroupUnreadable /\ UNCHANGED <<pureVars, defVars>>
    \/ SkipDuplicateSkill /\ UNCHANGED <<pureVars, defVars>>
    \/ RefuseZipOutsideDownloads /\ UNCHANGED <<pureVars, defVars>>
    \/ PackageSkillOk /\ UNCHANGED <<pureVars, defVars>>
    \/ PackageSkillFails /\ UNCHANGED <<pureVars, defVars>>
    \/ SkillsCloseGroup /\ UNCHANGED <<pureVars, defVars>>
    \/ SkillsFinish /\ UNCHANGED <<pureVars, defVars>>
    \/ DefinitionsRootMissing /\ UNCHANGED <<pureVars, skillVars>>
    \/ DefinitionsStart /\ UNCHANGED <<pureVars, skillVars>>
    \/ DefinitionsProvider /\ UNCHANGED <<pureVars, skillVars>>
    \/ DefinitionsFinish /\ UNCHANGED <<pureVars, skillVars>>
    \/ Rerun /\ UNCHANGED pureVars

Spec == Init /\ [][Next]_vars

\* main is one sequential async function that the runtime runs to its end:
\* while the process has a step to take, it takes one.  Running the script
\* again is up to the caller.
MainStep == pc # "done" /\ Next

\* Where main has a step to take: at each of these positions one branch of
\* the code is open whatever the data (the root is there or it is not, the
\* loop has an element left or it has not).
mainRunning == pc \in {"start", "groups", "skills", "providers"}

\* WF_vars(MainStep), written out with mainRunning for ENABLED <<MainStep>>_vars
FairSpec == Spec /\ ([]<>(~mainRunning) \/ []<><<MainStep>>_vars)

(***************************************************************************)
(* Claims                                                                  *)
(***************************************************************************)

lastOf(seq) == seq[Len(seq)]

\* How the names of the model are classified by the exclusion policy.
VcsNames      == {n_git, n_svn, n_hg}
SecretNames   == {n_env, n_env_local, n_npmrc, n_yarnrc, n_yarnrc_yml, n_pypirc,
                  n_id_rsa, n_id_ed25519, n_a_PEM}
ArtifactNames == {n_DS_Store, n_a_swp}
DependencyCacheDirNames ==
    {n_pycache, n_node_modules, n_dotvenv, n_venv, n_envdir, n_dist}

\* C1: a path that denotes VCS metadata, a secret, key or certificate file,
\* an OS or editor artifact or a dependency/build-cache directory is
\* excluded whatever the isDirectory flag; and whenever a directory on the
\* way to an entry is excluded (as a directory), the entry nested beneath
\* it is excluded too, also when that directory is the first segment.
C1_ExcludedRecursively ==
    /\ (Len(fPath) > 0 /\
          lastOf(fPath) \in VcsNames \cup SecretNames \cup ArtifactNames
                             \cup DependencyCacheDirNames)
          => fVerdict
    /\ \A k \in 1..Len(fDirVerdicts) : fDirVerdicts[k] => fVerdict

\* C2 as stated: a dot-prefixed basename is excluded as a directory, and is
\* not excluded as a file when the basename matches no secret, VCS or
\* artifact rule and no segment is a denylisted directory name.
C2_DotPrefixed_Original ==
    (Len(fPath) > 0 /\ startsWith(lastOf(fPath), <<".">>)) =>
        /\ fIsDir => fVerdict
        /\ ( /\ ~fIsDir
             /\ lastOf(fPath) \notin VcsNames \cup SecretNames \cup ArtifactNames
             /\ \A i \in 1..Len(fPath) : fPath[i] \notin excludedDirNames )
           => ~fVerdict

\* C2 as amended: the same, for a file none of whose ancestor directories
\* is a VCS directory (.git, .svn, .hg).
C2_DotPrefixed ==
    (Len(fPath) > 0 /\ startsWith(lastOf(fPath), <<".">>)) =>
        /\ fIsDir => fVerdict
        /\ ( /\ ~fIsDir
             /\ lastOf(fPath) \notin VcsNames \cup SecretNames \cup ArtifactNames
             /\ \A i \in 1..Len(fPath) : fPath[i] \notin excludedDirNames
             /\ \A i \in 1..(Len(fPath) - 1) : fPath[i] \notin VcsNames )
           => ~fVerdict

\* A dot-prefixed placeholder file below an ordinary directory was
\* classified and kept.
C2_Witness ==
    /\ fPath = <<n_src, n_gitkeep>>
    /\ ~fIsDir
    /\ ~fVerdict

\* C3: the file_count of countIncludedFiles equals the number of regular
\* files createSkillZip put in the archive.
C3_CountMatchesArchive ==
    pDone => pFileCount = Cardinality(regularFiles(pArchive))

RECURSIVE trailingEllipses(_)
trailingEllipses(s) ==
    IF Len(s) > 0 /\ s[Len(s)] = Ellipsis
    THEN 1 + trailingEllipses(SubSeq(s, 1, Len(s) - 1))
    ELSE 0

\* C6 as stated: the public description is at most 500 characters long, a
\* description of at most 500 characters is emitted unchanged, and a longer
\* one is its first 499 characters followed by one ellipsis, so that it
\* ends in exactly one ellipsis character.
C6_Truncation_Original ==
    tDone =>
        /\ Len(tOut) <= PUBLIC_DESC_MAX_CHARS
        /\ Len(tStr) <= PUBLIC_DESC_MAX_CHARS => tOut = tStr
        /\ Len(tStr) > PUBLIC_DESC_MAX_CHARS =>
              /\ tOut = SubSeq(tStr, 1, PUBLIC_DESC_MAX_CHARS - 1) \o <<Ellipsis>>
              /\ trailingEllipses(tOut) = 1

\* C6 as amended: the public description is at most 500 characters long, a
\* description of at most 500 characters is emitted unchanged, and a longer
\* one is its first 499 characters followed by one appended ellipsis: it is
\* exactly 500 characters long and its last character is the ellipsis.
C6_Truncation ==
    tDone =>
        /\ Len(tOut) <= PUBLIC_DESC_MAX_CHARS
        /\ Len(tStr) <= PUBLIC_DESC_MAX_CHARS => tOut = tStr
        /\ Len(tStr) > PUBLIC_DESC_MAX_CHARS =>
              /\ tOut = SubSeq(tStr, 1, PUBLIC_DESC_MAX_CHARS - 1) \o <<Ellipsis>>
              /\ Len(tOut) = PUBLIC_DESC_MAX_CHARS
              /\ lastOf(tOut) = Ellipsis

\* A description longer than the budget was truncated.
C6_Witness ==
    /\ tDone
    /\ Len(tStr) = PUBLIC_DESC_MAX_CHARS + 1
    /\ Len(tOut) = PUBLIC_DESC_MAX_CHARS
    /\ tOut # tStr


\* The manifest with its timestamp blanked
withoutGeneratedAt(manifest) == [manifest EXCEPT !.generated_at = "blank"]

\* C4: two runs against the same corpus produce identical public and
\* internal manifests except for generated_at, whatever order the
\* filesystem returns directory entries in.
C4_RunsAgree ==
    (pc = "done" /\ runNo = "second") =>
        /\ withoutGeneratedAt(manifestPublic) = withoutGeneratedAt(prevPublic)
        /\ withoutGeneratedAt(manifestInternal) = withoutGeneratedAt(prevInternal)

\* targetAbs is the directory baseDirAbs or lies beneath it
lexicallyInside(baseDirAbs, targetAbs) ==
    /\ Len(targetAbs) >= Len(baseDirAbs)
    /\ SubSeq(targetAbs, 1, Len(baseDirAbs)) = baseDirAbs

\* The skills of a manifest under construction that carry a download_url:
\* those of the groups already added and those of the group being filled.
RECURSIVE countInGroups(_, _)
countInGroups(groups, url) ==
    IF Len(groups) = 0 THEN 0
    ELSE Cardinality({ i \in 1..Len(groups[1].skills) :
                          groups[1].skills[i].download_url = url })
         + countInGroups(Tail(groups), url)

countListed(manifest, groupOut, url) ==
    IF pipeline # "skills" \/ pc \in {"start", "failed"} THEN 0
    ELSE countInGroups(manifest.groups, url)
         + (IF pc = "skills" THEN countInGroups(<<groupOut>>, url) ELSE 0)

duplicateNames ==
    { warnLog[i].about : i \in { j \in 1..Len(warnLog) :
                                   warnLog[j].kind = "duplicate-skill-folder" } }

writesTo(zipOutAbs) == { i \in 1..Len(zipWrites) : zipWrites[i].zipOutAbs = zipOutAbs }

\* C5 as stated: where a folder name was met twice, the first unit is
\* listed once in both manifests and its archive was written, from one
\* directory only.
C5_FirstListedAndArchived ==
    (pipeline = "skills" /\ pc = "done") =>
        \A n \in duplicateNames :
            /\ countListed(manifestPublic, groupOutPublic, downloadUrl(n)) = 1
            /\ countListed(manifestInternal, groupOutInternal, downloadUrl(n)) = 1
            /\ writesTo(zipOutAbsOf(n)) # {}
            /\ \A i, j \in writesTo(zipOutAbsOf(n)) :
                  zipWrites[i].skillDirAbs = zipWrites[j].skillDirAbs

C5_ListedAtMostOnce ==
    \A n \in SkillDirNames :
        /\ countListed(manifestPublic, groupOutPublic, downloadUrl(n)) <= 1
        /\ countListed(manifestInternal, groupOutInternal, downloadUrl(n)) <= 1
        /\ (n \in duplicateNames /\ lexicallyInside(downloadsDir, zipOutAbsOf(n))) =>
              /\ countListed(manifestPublic, groupOutPublic, downloadUrl(n)) = 1
              /\ countListed(manifestInternal, groupOutInternal, downloadUrl(n)) = 1

C5_SkipStep ==
    (AtSkill /\ currentSkill.dirName \in seenSkillFolderNames) =>
        /\ errorCount' = errorCount + 1
        /\ zipWrites' = zipWrites
        /\ UNCHANGED <<manifestPublic, manifestInternal, groupOutPublic, groupOutInternal>>
        /\ pc' = "skills" /\ sIdx' = sIdx + 1

\* C5, amended: a unit whose folder name was met before adds nothing to
\* either manifest, adds one to the error counter and opens no archive
\* write, and leaves what the first unit of that name produced as it was;
\* no download_url is listed twice, and the first unit is listed exactly
\* once whenever its archive path is inside the downloads directory.
C5_DuplicateSkipped == []C5_ListedAtMostOnce /\ [][C5_SkipStep]_vars

C5_Witness ==
    /\ pipeline = "skills" /\ pc = "done"
    /\ d_x \in duplicateNames
    /\ countListed(manifestPublic, groupOutPublic, downloadUrl(d_x)) = 1
    /\ writesTo(zipOutAbsOf(d_x)) # {}

hasParentSegment(name) ==
    \E i \in 1..Len(split(name, "/")) : split(name, "/")[i] = <<".", ".">>

rejectedStep ==
    /\ zipWrites' = zipWrites
    /\ UNCHANGED <<manifestPublic, manifestInternal, groupOutPublic, groupOutInternal>>
    /\ errorCount' = errorCount + 1

C7_WritesInside ==
    \A i \in 1..Len(zipWrites) : lexicallyInside(downloadsDir, zipWrites[i].zipOutAbs)

C7_OutsideStep ==
    (AtSkill /\ ~lexicallyInside(downloadsDir, zipOutAbsOf(currentSkill.dirName)))
        => rejectedStep

lastOfSeq(q) == q[Len(q)]

\* C9: when counting or writing the archive of a unit fails, the unit is
\* recorded in both manifests with zip_size_bytes = 0 and file_count = 0,
\* the error counter goes up by exactly one, the packaged counter and the
\* total of archive bytes stay, and the run goes on with the next unit.
C9_FailureRecordedAsZero ==
    [][(/\ AtSkill
        /\ currentSkill.dirName \notin seenSkillFolderNames
        /\ lexicallyInside(downloadsDir, zipOutAbsOf(currentSkill.dirName))
        /\ currentUnit.profile.pack # "ok")
       => (/\ Len(groupOutPublic'.skills) = Len(groupOutPublic.skills) + 1
           /\ Len(groupOutInternal'.skills) = Len(groupOutInternal.skills) + 1
           /\ lastOfSeq(groupOutPublic'.skills).zip_size_bytes = 0
           /\ lastOfSeq(groupOutPublic'.skills).file_count = 0
           /\ lastOfSeq(groupOutInternal'.skills).zip_size_bytes = 0
           /\ lastOfSeq(groupOutInternal'.skills).file_count = 0
           /\ errorCount' = errorCount + 1
           /\ packagedCount' = packagedCount
           /\ totalZipBytes' = totalZipBytes
           /\ pc' = "skills" /\ sIdx' = sIdx + 1)]_vars

\* The corpus of the scenario: one provider with a provider.toml, whose
\* models/ holds a.toml, with the required boolean reasoning missing, and
\* sub/b.toml, with every field.
C8_Corpus ==
    [ providers |-> [p \in ProviderDirNames |-> IF p = p_acme THEN "named" ELSE "absent"],
      files |-> { [provider |-> p_acme, name |-> n_a_toml, kind |-> "missingBoolean"] } ]

hasWarning(w) == \E i \in 1..Len(warnLog) : warnLog[i] = w

C8_ScenarioOutput ==
    /\ pc = "done"
    /\ exitCode = 0
    /\ Len(outFiles) = 3
    /\ Len(manifestPublic.providers) = 1
    /\ Len(manifestInternal.providers) = 1
    /\ manifestPublic.providers[1].model_count = 2
    /\ \E i \in 1..2 :
          /\ manifestPublic.providers[1].models[i].id = <<"a">>
          /\ manifestPublic.providers[1].models[i].reasoning = JsBoolean(FALSE)
          /\ manifestInternal.providers[1].models[i].id = <<"a">>
          /\ manifestInternal.providers[1].models[i].reasoning = JsBoolean(FALSE)
    /\ hasWarning(Warning("missing-boolean-reasoning", modelLabel(p_acme, <<"a">>)))

\* C8: for a corpus with one group containing two units, one with complete
\* valid metadata and one with a missing required boolean field, the run
\* completes successfully, the manifest reports exactly one group, the unit
\* with the missing field is present with that field set to false and a
\* warning is recorded for it, and the error counter of the run is exactly
\* 1 when the run ends.
C8_MissingBooleanScenario ==
    (/\ pipeline = "definitions"
     /\ rootExists
     /\ defsCorpus = C8_Corpus
     /\ unreadableDirs = {}
     /\ pc \in {"done", "failed", "skipped"})
    => (C8_ScenarioOutput /\ errorCount = 1)

RECURSIVE sumOf(_)
sumOf(numbers) ==
    IF Len(numbers) = 0 THEN 0 ELSE numbers[1] + sumOf(Tail(numbers))

skillCounts(manifest) ==
    [i \in 1..Len(manifest.groups) |-> manifest.groups[i].skill_count]
modelCounts(manifest) ==
    [i \in 1..Len(manifest.providers) |-> manifest.providers[i].model_count]

skillsCountsHold(manifest) ==
    /\ \A i \in 1..Len(manifest.groups) :
          manifest.groups[i].skill_count = Len(manifest.groups[i].skills)
    /\ manifest.total_skills = sumOf(skillCounts(manifest))

definitionsCountsHold(manifest) ==
    /\ \A i \in 1..Len(manifest.providers) :
          manifest.providers[i].model_count = Len(manifest.providers[i].models)
    /\ manifest.total_models = sumOf(modelCounts(manifest))
    /\ manifest.total_providers = Len(manifest.providers)

\* C10: in every manifest written by either pipeline, the count of each
\* group equals the number of units listed in it, the total equals the sum
\* of the group counts, total_providers equals the number of providers
\* listed, and the public and the internal manifest carry the same values.
C10_CountsRecomputed ==
    /\ (pipeline = "skills" /\ pc = "done") =>
          /\ skillsCountsHold(manifestPublic)
          /\ skillsCountsHold(manifestInternal)
          /\ skillCounts(manifestPublic) = skillCounts(manifestInternal)
          /\ manifestPublic.total_skills = manifestInternal.total_skills
    /\ (pipeline = "definitions" /\ pc = "done") =>
          /\ definitionsCountsHold(manifestPublic)
          /\ definitionsCountsHold(manifestInternal)
          /\ modelCounts(manifestPublic) = modelCounts(manifestInternal)
          /\ manifestPublic.total_models = manifestInternal.total_models
          /\ manifestPublic.total_providers = manifestInternal.total_providers

C10_Witness ==
    /\ pipeline = "definitions" /\ pc = "done"
    /\ manifestPublic.total_providers = 2
    /\ manifestPublic.total_models = 3
    /\ hasWarning(Warning("toml-parse-failed", modelLabel(p_acme, <<"a">>)))

\* The three output files of a pipeline, in the order main writes them.
outputPathsOf(p) ==
    IF p = "skills"
    THEN <<skillsPublicManifestPath, skillsInternalCatalogPath, skillsSchemaPath>>
    ELSE <<defsPublicManifestPath, defsInternalCatalogPath, defsSchemaPath>>

\* The output directory each of them is to stay in.
outputDirOf(path) ==
    IF path \in {skillsInternalCatalogPath, defsInternalCatalogPath} THEN astroDataDir
    ELSE IF path \in {skillsPublicManifestPath, skillsSchemaPath}
         THEN pathResolve(publicDir, s_skills)
    ELSE publicDefinitionsDir

wasChecked(path) ==
    \E i \in 1..Len(boundaryChecks) :
        /\ boundaryChecks[i].targetAbs = path
        /\ boundaryChecks[i].baseDirAbs = outputDirOf(path)

\* C11: in both pipelines, every public manifest, internal catalog or
\* schema file that has been written had its destination path checked,
\* before the write, to be lexically inside its designated output
\* directory; and a run that ended in a fatal error has written none of
\* the three files.
C11_WritesAreChecked ==
    /\ \A i \in 1..Len(outFiles) : wasChecked(outFiles[i].path)
    /\ pc = "failed" => outFiles = <<>>

\* C12: in both pipelines, a run that finds its corpus root directory
\* missing ends without having written a manifest, catalog or schema file
\* and with a non-zero exit status.
C12_MissingRootIsFatal ==
    (~rootExists /\ pc \notin {"start"})
    => (outFiles = <<>> /\ exitCode # 0)

\* The keys a record may lack: JSON.stringify leaves out a key whose value
\* is undefined.
OptionalFields ==
    {"family", "temperature", "structured_output", "knowledge", "status", "api"}

\* Every field of the public record, those of except aside, is a field of
\* the internal record and has the same value there.
projects(pub, int, except) ==
    /\ DOMAIN pub \subseteq DOMAIN int
    /\ \A f \in DOMAIN pub \ except :
          \/ f \in OptionalFields /\ pub[f] = JsUndefined
          \/ pub[f] = int[f]

\* The public cost is absent, or holds input and output only, each as the
\* internal cost has it.
costProjects(pub, int) ==
    pub.has_cost =>
        /\ int.has_cost
        /\ pub.cost.cache_read = JsUndefined
        /\ \A f \in {"input", "output"} :
              pub.cost[f] = JsUndefined \/ pub.cost[f] = int.cost[f]

skillProjects(pub, int) ==
    /\ projects(pub, int, {"description"})
    /\ pub.description = truncate(int.description, PUBLIC_DESC_MAX_CHARS)

modelProjects(pub, int) ==
    /\ projects(pub, int, {"description", "cost", "has_cost"})
    /\ \/ pub.description = JsUndefined
       \/ /\ int.description.t = "string"
          /\ pub.description =
                JsString(truncate(int.description.v, PUBLIC_DESC_MAX_CHARS))
    /\ costProjects(pub, int)

\* Two lists have the same length and agree position by position.
aligned(pubs, ints, Agree(_, _)) ==
    /\ Len(pubs) = Len(ints)
    /\ \A i \in 1..Len(pubs) : Agree(pubs[i], ints[i])

skillGroupProjects(pub, int) ==
    /\ projects(pub, int, {"skills"})
    /\ aligned(pub.skills, int.skills, skillProjects)

providerProjects(pub, int) ==
    /\ projects(pub, int, {"models"})
    /\ aligned(pub.models, int.models, modelProjects)

\* C13: the public manifest written by a run is a position-by-position
\* projection of the internal manifest of the same run: the same groups
\* in the same order and in each group the same units in the same order,
\* every field of a public record being a field of the internal record
\* with the same value, except the description, which is the truncated
\* internal one, and the cost, which keeps input and output only.
C13_PublicProjectsInternal ==
    pc = "done" =>
        IF pipeline = "skills"
        THEN /\ projects(manifestPublic, manifestInternal, {"groups"})
             /\ aligned(manifestPublic.groups, manifestInternal.groups,
                        skillGroupProjects)
        ELSE /\ projects(manifestPublic, manifestInternal, {"providers"})
             /\ aligned(manifestPublic.providers, manifestInternal.providers,
                        providerProjects)

\* A definitions run has written two providers, the first with two models
\* of different ids whose internal cost holds more than the public one.
C13_Witness ==
    /\ pipeline = "definitions" /\ pc = "done"
    /\ Len(manifestPublic.providers) = 2
    /\ Len(manifestPublic.providers[1].models) = 2
    /\ manifestInternal.providers[1].models[1].id
          # manifestInternal.providers[1].models[2].id
    /\ manifestInternal.providers[1].models[1].cost.cache_read # JsUndefined
    /\ manifestPublic.providers[1].models[1].cost.cache_read = JsUndefined
    /\ "env" \in DOMAIN manifestInternal.providers[1]
    /\ "env" \notin DOMAIN manifestPublic.providers[1]

\* Two definitions corpora have the same directory and file names.
sameLayout(c1, c2) ==
    /\ c1.providers = c2.providers
    /\ { [provider |-> f.provider, name |-> f.name] : f \in c1.files }
         = { [provider |-> f.provider, name |-> f.name] : f \in c2.files }

\* The ids of the models a run on a corpus lists for a provider; they do
\* not depend on the order readdir returns the entries in.
modelIdsOfRun(corpus, providerId) ==
    IF ~modelsDirExists(corpus, providerId) THEN {}
    ELSE LET tree == modelsTree(corpus, providerId)
             orderOf == CHOOSE o \in readOrders(tree, modelsRootAbsOf(providerId)) : TRUE
             read == readModels(corpus, providerId, listModelTomlFiles(tree, orderOf))
         IN  { read.models[i].id : i \in 1..Len(read.models) }

skillsListed(manifest) ==
    UNION { { manifest.groups[i].skills[j] : j \in 1..Len(manifest.groups[i].skills) } :
              i \in 1..Len(manifest.groups) }

\* The skill folders on disk a run can list: those with a SKILL.md whose
\* archive path is inside the downloads directory.
listableFolderNames ==
    { u.dirName : u \in { w \in skillsCorpus :
                            /\ pathExists(w.profile.tree, <<n_SKILL_md>>)
                            /\ ~outsideDir(downloadsDir, zipOutAbsOf(w.dirName)) } }

\* C14: unit identity depends on the filesystem layout only. In a skills
\* run every archive path and every download_url is the one of a skill
\* folder on disk, whatever its frontmatter says, and the download_url
\* values listed are those of all the listable folders; in a definitions
\* run the provider ids are the provider directory names, and the model
\* ids listed for each provider are the ones a run lists on any corpus
\* with the same directory and file names and other TOML contents.
C14_IdentityFromLayout ==
    pc = "done" =>
        IF pipeline = "skills"
        THEN /\ { sk.download_url : sk \in skillsListed(manifestInternal) }
                  = { downloadUrl(d) : d \in listableFolderNames }
             /\ { sk.download_url : sk \in skillsListed(manifestPublic) }
                  = { downloadUrl(d) : d \in listableFolderNames }
             /\ \A i \in 1..Len(zipWrites) :
                   zipWrites[i].zipOutAbs \in { zipOutAbsOf(d) : d \in listableFolderNames }
        ELSE /\ { manifestInternal.providers[i].id :
                    i \in 1..Len(manifestInternal.providers) }
                  = { providerIds[i] : i \in 1..Len(providerIds) }
             /\ \A c2 \in { c \in DefinitionsCorpora :
                              IsDefinitionsCorpus(c) /\ sameLayout(c, defsCorpus) } :
                   \A i \in 1..Len(manifestInternal.providers) :
                      { manifestInternal.providers[i].models[j].id :
                          j \in 1..Len(manifestInternal.providers[i].models) }
                        = modelIdsOfRun(c2, manifestInternal.providers[i].id)

\* No two positions of a list hold the same identity.
distinctBy(units, Key(_)) ==
    \A i, j \in 1..Len(units) : Key(units[i]) = Key(units[j]) => i = j

idOf(unit) == unit.id
downloadUrlOf(skill) == skill.download_url

\* The skills of all the groups of a manifest, in the order listed
RECURSIVE allSkills(_)
allSkills(groups) ==
    IF Len(groups) = 0 THEN <<>>
    ELSE groups[1].skills \o allSkills(Tail(groups))

uniqueIdentities(manifest) ==
    IF pipeline = "skills"
    THEN distinctBy(allSkills(manifest.groups), downloadUrlOf)
    ELSE /\ distinctBy(manifest.providers, idOf)
         /\ \A i \in 1..Len(manifest.providers) :
               distinctBy(manifest.providers[i].models, idOf)

\* C15: in the manifests a run has written no two units have the same
\* identity: no two skills have the same download_url, no two providers
\* the same id, and no two models of a provider the same id.
C15_IdentitiesUnique ==
    pc = "done" => uniqueIdentities(manifestPublic) /\ uniqueIdentities(manifestInternal)

\* The run meets none of the failures that end it: the corpus root is there
\* and every directory can be read.
onlyNonFatalFailures == rootExists /\ unreadableDirs = {}

hasWarningOfKind(kind) == \E i \in 1..Len(warnLog) : warnLog[i].kind = kind

\* C16: a run whose failures are all non-fatal (missing or malformed
\* fields, unparsable documents, duplicate identities, rejected archive
\* paths, archive-write failures) eventually writes its three output files
\* and ends with exit status 0.
C16_NonFatalRunCompletes ==
    (pc = "start" /\ onlyNonFatalFailures)
        ~> (pc = "done" /\ exitCode = 0 /\ Len(outFiles) = 3)

\* A skills run that met a duplicate folder and an archive failure, and a
\* definitions run that met an unparsable model file, have ended.
C16_Witness ==
    /\ pc = "done" /\ exitCode = 0 /\ Len(outFiles) = 3
    /\ onlyNonFatalFailures
    /\ \/ errorCount >= 2 /\ hasWarningOfKind("package-failed")
       \/ pipeline = "definitions" /\ hasWarningOfKind("toml-parse-failed")

\* C17: a directory that cannot be read during discovery counts as empty,
\* with a warning: the run does not fail on it, and it ends with its three
\* output files written.
C17_UnreadableDirectoryIsEmpty ==
    (rootExists /\ unreadableDirs # {}) =>
        /\ pc # "failed"
        /\ pc = "done" => Len(outFiles) = 3 /\ hasWarningOfKind("readdir-failed")

\* The skills on disk whose SKILL.md cannot be parsed, that a run lists and
\* that share their folder name with no other skill.
unparsableSkills ==
    { u \in skillsCorpus :
        /\ ~u.profile.front.parses
        /\ u.dirName \in listableFolderNames
        /\ \A w \in skillsCorpus : w.dirName = u.dirName => w = u }

\* The model files on disk that cannot be parsed, and that share their id
\* with no other file of the provider.
unparsableModelFiles ==
    { f \in defsCorpus.files :
        /\ f.kind = "unparsable"
        /\ \A g \in defsCorpus.files :
              (g.provider = f.provider /\ modelIdOf(g.name) = modelIdOf(f.name)) => g = f }

listsMinimalSkill(manifest, u) ==
    \E sk \in skillsListed(manifest) :
        /\ sk.download_url = downloadUrl(u.dirName)
        /\ sk.name = u.dirName
        /\ sk.description = <<>>

listsMinimalModel(manifest, f) ==
    \E i \in 1..Len(manifest.providers) :
        /\ manifest.providers[i].id = f.provider
        /\ \E j \in 1..Len(manifest.providers[i].models) :
              LET m == manifest.providers[i].models[j]
              IN  /\ m.id = modelIdOf(f.name)
                  /\ m.name = modelIdOf(f.name)
                  /\ m.description = JsUndefined

\* C18: a unit whose metadata document cannot be read or parsed is warned
\* about and is listed in both manifests as a minimal record: its name is
\* the identity its folder or path gives it, and its description is empty.
C18_UnparsableUnitIsMinimal ==
    (pc = "done" /\ unreadableDirs = {}) =>
        IF pipeline = "skills"
        THEN \A u \in unparsableSkills :
                /\ hasWarning(Warning("frontmatter-parse-failed", u.dirName))
                /\ listsMinimalSkill(manifestPublic, u)
                /\ listsMinimalSkill(manifestInternal, u)
        ELSE \A f \in unparsableModelFiles :
                /\ hasWarning(Warning("toml-parse-failed",
                                      modelLabel(f.provider, modelIdOf(f.name))))
                /\ listsMinimalModel(manifestPublic, f)
                /\ listsMinimalModel(manifestInternal, f)

\* C19: nothing the Exclusion Filter excludes is scanned or listed. No
\* group directory and no provider directory the walker selects, no group
\* a skills manifest lists and no model file a definitions manifest lists
\* has a relative path for which shouldExcludePath returns true.
C19_ExcludedNeverSelected ==
    /\ \A i \in 1..Len(groupNames) : ~shouldExcludePath(groupNames[i], TRUE)
    /\ \A i \in 1..Len(providerIds) : ~shouldExcludePath(providerIds[i], TRUE)
    /\ (pc = "done" /\ pipeline = "skills") =>
          \A i \in 1..Len(manifestPublic.groups) :
             ~shouldExcludePath(manifestPublic.groups[i].name, TRUE)
    /\ (pc = "done" /\ pipeline = "definitions") =>
          \A i \in 1..Len(manifestPublic.providers) :
             \A j \in 1..Len(manifestPublic.providers[i].models) :
                ~shouldExcludePath(manifestPublic.providers[i].models[j].id
                                     \o s_dot_toml, FALSE)

\* The display names of a list are in non-decreasing case-insensitive order.
nonDecreasingByName(units) ==
    \A i \in 1..(Len(units) - 1) :
        localeCompareBase(units[i].name, units[i + 1].name) <= 0

orderedByDisplayName(manifest) ==
    IF pipeline = "skills"
    THEN /\ nonDecreasingByName(manifest.groups)
         /\ \A i \in 1..Len(manifest.groups) :
               nonDecreasingByName(manifest.groups[i].skills)
    ELSE /\ nonDecreasingByName(manifest.providers)
         /\ \A i \in 1..Len(manifest.providers) :
               nonDecreasingByName(manifest.providers[i].models)

stringified(val) ==
    IF val.t = "number" /\ val.v \in NonFinite THEN JsNull ELSE val

\* What a manifest file holds for a numeric field is a finite number, null,
\* or nothing.
finiteOrAbsent(val) ==
    \/ stringified(val).t \in {"undefined", "null"}
    \/ stringified(val).t = "number" /\ stringified(val).v \notin NonFinite

numericFieldsFinite(model) ==
    /\ finiteOrAbsent(model.limit.context)
    /\ finiteOrAbsent(model.limit.output)
    /\ finiteOrAbsent(model.limit.input)
    /\ finiteOrAbsent(model.cost.input)
    /\ finiteOrAbsent(model.cost.output)
    /\ finiteOrAbsent(model.cost.cache_read)

modelsListed(manifest) ==
    UNION { { manifest.providers[i].models[j] :
                j \in 1..Len(manifest.providers[i].models) } :
              i \in 1..Len(manifest.providers) }

\* C21: in every model record the definitions pipeline writes, public or
\* internal, limit.context, limit.output, limit.input and every entry of
\* cost is a finite number, null or absent.
C21_NumericFieldsFinite ==
    (pipeline = "definitions" /\ pc = "done") =>
        /\ \A m \in modelsListed(manifestPublic) : numericFieldsFinite(m)
        /\ \A m \in modelsListed(manifestInternal) : numericFieldsFinite(m)

slugsFromNames(manifest) ==
    \A i \in 1..Len(manifest.groups) :
        manifest.groups[i].slug = slugifyGroupName(manifest.groups[i].name)

slugsDistinct(manifest) ==
    \A i, j \in 1..Len(manifest.groups) :
        toLowerCase(manifest.groups[i].slug) = toLowerCase(manifest.groups[j].slug)
            => i = j

\* C22: the slug of a group is computed from its name only, and in a
\* skills manifest no two groups have the same slug, compared
\* case-insensitively.
C22_SlugsUnique ==
    (pipeline = "skills" /\ pc = "done") =>
        /\ slugsFromNames(manifestPublic) /\ slugsFromNames(manifestInternal)
        /\ slugsDistinct(manifestPublic) /\ slugsDistinct(manifestInternal)

\* What a level of a schema declares: the keys of its properties and the
\* keys it requires.
Level(required, properties) == [required |-> required, properties |-> properties]

\* buildJsonSchema of build-skills.mjs and of build-definitions.mjs: the
\* required and properties keys of the root, of each of $defs, and of the
\* objects nested in them.
buildJsonSchema(script) ==
    IF script = "skills"
    THEN [ root |-> Level({"version", "generated_at", "base_url", "total_skills", "groups"},
                          {"version", "generated_at", "base_url", "total_skills", "groups"}),
           group |-> Level({"name", "slug", "skill_count", "skills"},
                           {"name", "slug", "skill_count", "skills"}),
           skill |-> Level({"name", "description", "group", "download_url",
                            "zip_size_bytes", "file_count", "contents"},
                           {"name", "description", "group", "download_url",
                            "zip_size_bytes", "file_count", "contents"}),
           contents |-> Level({"has_scripts", "has_references", "has_license"},
                              {"has_scripts", "has_references", "has_license"}) ]
    ELSE [ root |-> Level({"version", "generated_at", "base_url", "total_providers",
                           "total_models", "providers"},
                          {"version", "generated_at", "base_url", "total_providers",
                           "total_models", "providers"}),
           provider |-> Level({"id", "name", "npm", "doc", "has_logo", "model_count", "models"},
                              {"id", "name", "npm", "doc", "api", "has_logo",
                               "model_count", "models"}),
           model |-> Level({"id", "name", "provider", "release_date", "last_updated",
                            "attachment", "reasoning", "tool_call", "open_weights",
                            "modalities", "limit"},
                           {"id", "name", "family", "provider", "release_date",
                            "last_updated", "attachment", "reasoning", "tool_call",
                            "temperature", "structured_output", "knowledge",
                            "open_weights", "status", "description", "modalities",
                            "limit", "cost"}),
           modalities |-> Level({"input", "output"}, {"input", "output"}),
           limit |-> Level({"context", "output"}, {"context", "output", "input"}),
           cost |-> Level({}, {"input", "output"}) ]

\* The keys JSON.stringify writes for a record: all but those whose value
\* is undefined. mayLack names the keys that hold a JavaScript value that
\* can be undefined.
keysWritten(record, mayLack) ==
    { k \in DOMAIN record : k \notin mayLack \/ record[k] # JsUndefined }

\* The keys written for a model record and for its cost. has_cost and the
\* t of a table are the model's record of whether the object is there.
modelKeysWritten(model) ==
    (keysWritten(model, {"family", "temperature", "structured_output", "knowledge",
                         "status", "description"}) \ {"has_cost", "cost"})
        \cup (IF model.has_cost THEN {"cost"} ELSE {})
costKeysWritten(cost) == keysWritten(cost, {"input", "output", "cache_read"}) \ {"t"}

\* The keys of a record are declared, and the required ones are there.
conforms(keys, level) ==
    /\ keys \subseteq level.properties
    /\ level.required \subseteq keys

skillsManifestConforms(manifest, schema) ==
    /\ conforms(DOMAIN manifest, schema.root)
    /\ \A i \in 1..Len(manifest.groups) :
          LET g == manifest.groups[i]
          IN  /\ conforms(DOMAIN g, schema.group)
              /\ \A j \in 1..Len(g.skills) :
                    /\ conforms(DOMAIN g.skills[j], schema.skill)
                    /\ conforms(DOMAIN g.skills[j].contents, schema.contents)

definitionsManifestConforms(manifest, schema) ==
    /\ conforms(DOMAIN manifest, schema.root)
    /\ \A i \in 1..Len(manifest.providers) :
          LET p == manifest.providers[i]
          IN  /\ conforms(keysWritten(p, {"api"}), schema.provider)
              /\ \A j \in 1..Len(p.models) :
                    LET m == p.models[j]
                    IN  /\ conforms(modelKeysWritten(m), schema.model)
                        /\ conforms(DOMAIN m.modalities, schema.modalities)
                        /\ conforms(keysWritten(m.limit, {"context", "output", "input"}),
                                    schema.limit)
                        /\ m.has_cost => conforms(costKeysWritten(m.cost), schema.cost)

\* C23: the schema a run writes declares every key of the public manifest
\* of the run, at the root, group or provider, unit and nested levels, and
\* every key it requires is in the manifest.
C23_SchemaMatchesPublicView ==
    pc = "done" =>
        IF pipeline = "skills"
        THEN skillsManifestConforms(manifestPublic, buildJsonSchema("skills"))
        ELSE definitionsManifestConforms(manifestPublic, buildJsonSchema("definitions"))

\* A public definitions manifest lists a provider without api and two
\* models: one with a cost and a family, and without structured_output,
\* and one without cost or limit.context.
C23_Witness ==
    /\ pipeline = "definitions" /\ pc = "done"
    /\ \E i \in 1..Len(manifestPublic.providers) :
          /\ manifestPublic.providers[i].api = JsUndefined
          /\ \E m \in modelsListed(manifestPublic) :
                /\ m.has_cost /\ costKeysWritten(m.cost) = {"input", "output"}
                /\ "family" \in modelKeysWritten(m)
                /\ "structured_output" \notin modelKeysWritten(m)
          /\ \E m \in modelsListed(manifestPublic) :
                /\ ~m.has_cost
                /\ m.limit.context = JsNull
                /\ "input" \notin keysWritten(m.limit, {"context", "output", "input"})

\* The number of warnings of a kind printed so far.
warningsOfKind(kind) ==
    Cardinality({ i \in 1..Len(warnLog) : warnLog[i].kind = kind })

\* The number of skill directories (those with a SKILL.md) of a group.
skillCountOf(groupName) ==
    Cardinality({ u \in skillsCorpus :
                    u.group = groupName /\ pathExists(u.profile.tree, <<n_SKILL_md>>) })

RECURSIVE skillCountOfGroups(_)
skillCountOfGroups(names) ==
    IF Len(names) = 0 THEN 0
    ELSE skillCountOf(names[1]) + skillCountOfGroups(Tail(names))

\* The candidate skills the two loops of main have gone through: those of
\* the groups left behind, and those before sIdx in the group main is in.
processedSoFar ==
    skillCountOfGroups(SubSeq(groupNames, 1, gIdx - 1))
        + (IF pc = "skills" THEN sIdx - 1 ELSE 0)

\* The skills listed so far: in the groups added to the manifest, and in
\* the group being built.
listedSoFar(manifest, groupOut) ==
    (IF manifest = NotBuilt THEN 0 ELSE Len(allSkills(manifest.groups)))
        + (IF pc = "skills" THEN Len(groupOut.skills) ELSE 0)

countersAgree ==
    pipeline = "skills" =>
        /\ packagedCount + errorCount = processedSoFar
        /\ listedSoFar(manifestPublic, groupOutPublic)
              = packagedCount + warningsOfKind("package-failed")
        /\ listedSoFar(manifestInternal, groupOutInternal)
              = packagedCount + warningsOfKind("package-failed")

\* A step of the inner loop over a skill that is a duplicate or whose
\* archive path is rejected.
skipsSkill ==
    /\ AtSkill
    /\ sIdx' = sIdx + 1
    /\ \/ currentSkill.dirName \in seenSkillFolderNames
       \/ outsideDir(downloadsDir, zipOutAbsOf(currentSkill.dirName))

skipChangesCountOnly ==
    skipsSkill =>
        /\ errorCount' = errorCount + 1
        /\ seenSkillFolderNames' = seenSkillFolderNames \cup {currentSkill.dirName}
        /\ UNCHANGED <<packagedCount, totalZipBytes, zipWrites, groupOutPublic,
                       groupOutInternal, manifestPublic, manifestInternal, outFiles>>

\* C24: in a skills run packagedCount + errorCount is the number of
\* candidate skills gone through so far, the number of skills listed is
\* packagedCount plus the number whose packaging failed, and skipping a
\* duplicate or a rejected archive path changes errorCount and the set of
\* seen folder names only.
C24_CountersAccountForUnits ==
    []countersAgree /\ [][skipChangesCountOnly]_vars

\* A run has ended in which one skill was packaged and a second one, with
\* the same folder name in another group, was skipped.
C24_Witness ==
    /\ pipeline = "skills" /\ pc = "done"
    /\ packagedCount = 1 /\ errorCount = 1
    /\ warningsOfKind("duplicate-skill-folder") = 1
    /\ processedSoFar = 2

====
